---- MODULE Spec2Model ----
(***************************************************************************)
(* Model of the multi-source weather analysis core of NASA-HACK:           *)
(*   - MultiSourceDataService.fetch_multi_source_data and its two callers  *)
(*     (analyze_weather with use_multi_source=True and                     *)
(*     get_enhanced_weather_data)                        -> Spec, FairSpec *)
(*   - MultiSourceDataService.calculate_consensus        -> ConsensusSpec  *)
(*   - StatisticalAnalyzer.analyze_day, analyze_date_range and             *)
(*     get_summary_probabilities                         -> AnalyzerSpec   *)
(*   - analyze_weather, analyze_weather_range and analyze_multiple_dates   *)
(*     on the single-source path                         -> ApiSpec        *)
(*   - the Flask endpoints /api/analyze, /api/analyze-range and            *)
(*     /api/analyze-multiple                             -> HttpSpec       *)
(*   - WeatherDataService.get_data with its providers and file cache       *)
(*                                                       -> ServiceSpec    *)
(*   - MultiSourceDataService._fetch_from_source over the five sources     *)
(*                                                       -> SourcesSpec    *)
(*   - the cache keys of the three caching layers        -> KeySpec        *)
(*   - analyze_weather with units (convert_result_units) -> UnitsSpec      *)
(*   - StatisticalAnalyzer(config).analyze_day           -> TemperatureSpec*)
(***************************************************************************)
EXTENDS Integers, Sequences, FiniteSets, TLC

VARIABLES
    caller,        \* who called fetch_multi_source_data
    parameters,    \* the `parameters` argument (a set: only membership is used)
    pc,            \* position of the calling thread
    submitted,     \* keys of future_to_source
    outcome,       \* per source: what the adapter call did ("unsubmitted", "running", or an Outcome)
    collected,     \* futures already taken from as_completed
    results,       \* the `results` dict, as the sequence of its keys in insertion order
    response,      \* what the caller returns
    multi_source_data,  \* calculate_consensus: its argument, entries in the dict's order
    consensus,     \* calculate_consensus: <<>> before the call, <<result>> after
    data,          \* analyze_day: the historical DataFrame
    day_of_year,   \* analyze_day: the day asked for
    analysis,      \* the analyzer method called: <<>> before the call, <<outcome>> after
    method,        \* which method of StatisticalAnalyzer was called, and its end_day
    request,       \* the call made on the Python API or the HTTP API: function and arguments
    report,        \* what that call did: <<>> before it, <<outcome>> after
    settings,      \* how the object was built: WeatherDataService's preferred_source, use_mock and the caller's use_interpolation; StatisticalAnalyzer's config
    network,       \* the providers: which answer a request at the moment, and their data
    cache_dir,     \* the cache directory: file name (cache key) -> the file
    history        \* the calls made on the data sources so far, each with what it did

fetchVars == <<caller, parameters, pc, submitted, outcome, collected, results, response>>

consensusVars == <<multi_source_data, consensus>>

analyzerVars == <<data, day_of_year, analysis, method>>

apiVars == <<request, report>>

serviceVars == <<settings, network, cache_dir, history>>

vars == <<fetchVars, consensusVars, analyzerVars, apiVars, serviceVars>>

\* No data source has been constructed or called
IdleService ==
    /\ settings = <<>>
    /\ network = <<>>
    /\ cache_dir = <<>>
    /\ history = <<>>

----------------------------------------------------------------------------
(* Static configuration of MultiSourceDataService.__init__ *)

Sources == {"nasa_power", "openmeteo", "openmeteo_enhanced", "ges_disc", "cptec"}

max_workers == 5

Parameters ==
    {"temperature", "precipitation", "wind_speed", "humidity", "pressure",
     "apparent_temperature", "weathercode", "windgusts",
     "air_quality", "black_carbon", "dust", "thunderstorm_risk"}

parameter_sources(p) ==
    CASE p = "temperature" -> {"nasa_power", "openmeteo", "openmeteo_enhanced"}
      [] p \in {"precipitation", "wind_speed", "humidity", "pressure"} -> {"nasa_power", "openmeteo"}
      [] p \in {"apparent_temperature", "weathercode", "windgusts"} -> {"openmeteo_enhanced"}
      [] p \in {"air_quality", "black_carbon", "dust"} -> {"ges_disc"}
      [] p = "thunderstorm_risk" -> {"cptec"}
      [] OTHER -> {}

\* The parameter list analyze_weather and get_enhanced_weather_data both pass.
all_parameters == Parameters \ {"pressure"}

\* Parameter lists of a direct call; "visibility" is in no table.
DirectParameters ==
    {{"temperature"}, {"precipitation", "visibility"}, {"thunderstorm_risk", "dust"}, {"visibility"}}

Callers == {"analyze_weather", "get_enhanced_weather_data", "direct"}

\* What one adapter call can do: return a non-empty frame, return an empty frame,
\* return None, or raise.
Outcomes == {"data", "empty", "none", "raised"}

----------------------------------------------------------------------------
(* fetch_multi_source_data *)

sources_needed == UNION {parameter_sources(p) : p \in parameters}

source_params(s) == {p \in parameters : s \in parameter_sources(p)}

\* _fetch_from_source: every exception of the adapter is caught and None returned.
FutureResult(o) == IF o = "raised" THEN "none" ELSE o

YieldsNotNone(o) == FutureResult(o) # "none"

\* `data is not None and not data.empty`
Yields(o) == FutureResult(o) = "data"

Running == {s \in Sources : outcome[s] = "running"}

AnyCollected == collected # {} \/ submitted = {}

\* as_completed(future_to_source) is exhausted
AllCollected == collected = submitted

Init ==
    /\ caller \in Callers
    /\ parameters \in (IF caller = "direct" THEN DirectParameters ELSE {all_parameters})
    /\ pc = "submit"
    /\ submitted = {}
    /\ outcome = [s \in Sources |-> "unsubmitted"]
    /\ collected = {}
    /\ results = <<>>
    /\ response = [kind |-> "pending", fields |-> {}]
    /\ multi_source_data = <<>>
    /\ consensus = <<>>
    /\ data = [columns |-> {}, rows |-> <<>>]
    /\ day_of_year = 1
    /\ analysis = <<>>
    /\ method = <<>>
    /\ request = <<>>
    /\ report = <<>>
    /\ IdleService

\* One iteration of `for source_name in sources_needed`: executor.submit
Submit(s) ==
    /\ pc = "submit"
    /\ s \in sources_needed \ submitted
    /\ s \in Sources
    /\ source_params(s) # {}
    /\ Cardinality(Running) < max_workers
    /\ submitted' = submitted \cup {s}
    /\ outcome' = [outcome EXCEPT ![s] = "running"]
    /\ UNCHANGED <<caller, parameters, pc, collected, results, response>>
    /\ UNCHANGED <<consensusVars, analyzerVars, apiVars, serviceVars>>

\* The submission loop is over; the thread enters the as_completed loop.
SubmitDone ==
    /\ pc = "submit"
    /\ sources_needed \subseteq submitted
    /\ pc' = "collect"
    /\ UNCHANGED <<caller, parameters, submitted, outcome, collected, results, response>>
    /\ UNCHANGED <<consensusVars, analyzerVars, apiVars, serviceVars>>

\* A worker's _fetch_from_source call ends.
Finish(s) ==
    /\ outcome[s] = "running"
    /\ \E o \in Outcomes : outcome' = [outcome EXCEPT ![s] = o]
    /\ UNCHANGED <<caller, parameters, pc, submitted, collected, results, response>>
    /\ UNCHANGED <<consensusVars, analyzerVars, apiVars, serviceVars>>

\* One iteration of the as_completed loop.
Collect(s) ==
    /\ pc = "collect"
    /\ s \in submitted \ collected
    /\ outcome[s] \in Outcomes
    /\ collected' = collected \cup {s}
    /\ results' = IF Yields(outcome[s]) THEN Append(results, s) ELSE results
    /\ UNCHANGED <<caller, parameters, pc, submitted, outcome, response>>
    /\ UNCHANGED <<consensusVars, analyzerVars, apiVars, serviceVars>>

\* ThreadPoolExecutor.__exit__: shutdown(wait=True)
PoolIdle == Running = {}

\* End of the as_completed loop and of the `with` block, then `return results`.
Return ==
    /\ pc = "collect"
    /\ AllCollected
    /\ PoolIdle
    /\ pc' = "returned"
    /\ UNCHANGED <<caller, parameters, submitted, outcome, collected, results, response>>
    /\ UNCHANGED <<consensusVars, analyzerVars, apiVars, serviceVars>>

----------------------------------------------------------------------------
(* The callers *)

ErrorFieldsAnalyze == {"error", "location", "date"}

ReportFieldsAnalyze ==
    {"location", "date", "day_of_year", "date_name", "probabilities", "statistics", "metadata"}

\* analyze_weather, use_multi_source=True: the try block around the fetch
AnalyzeWeather ==
    /\ pc = "returned"
    /\ caller = "analyze_weather"
    /\ response' = IF results # <<>>
                   THEN [kind |-> "report", fields |-> ReportFieldsAnalyze]
                   ELSE [kind |-> "error", fields |-> ErrorFieldsAnalyze]
    /\ pc' = "done"
    /\ UNCHANGED <<caller, parameters, submitted, outcome, collected, results>>
    /\ UNCHANGED <<consensusVars, analyzerVars, apiVars, serviceVars>>

NeverEmpty(r) == FALSE

\* `not multi_source_data`
NoData(r) == r = <<>>

\* get_enhanced_weather_data after the fetch
GetEnhancedWeatherData ==
    /\ pc = "returned"
    /\ caller = "get_enhanced_weather_data"
    /\ response' = IF NoData(results)
                   THEN [kind |-> "error", fields |-> {"error", "sources_attempted"}]
                   ELSE [kind |-> "report",
                         fields |-> {"location", "date", "data_sources", "parameters"}]
    /\ pc' = "done"
    /\ UNCHANGED <<caller, parameters, submitted, outcome, collected, results>>
    /\ UNCHANGED <<consensusVars, analyzerVars, apiVars, serviceVars>>

Next ==
    \/ \E s \in Sources : Submit(s)
    \/ SubmitDone
    \/ \E s \in Sources : Finish(s)
    \/ \E s \in Sources : Collect(s)
    \/ Return
    \/ AnalyzeWeather
    \/ GetEnhancedWeatherData

Spec == Init /\ [][Next]_vars

\* Every thread that can take a step eventually takes it: the calling thread is
\* not suspended anywhere but at the futures, and every adapter call ends.
Fairness ==
    /\ \A s \in Sources : WF_vars(Submit(s)) /\ WF_vars(Finish(s)) /\ WF_vars(Collect(s))
    /\ WF_vars(SubmitDone)
    /\ WF_vars(Return)
    /\ WF_vars(AnalyzeWeather)
    /\ WF_vars(GetEnhancedWeatherData)

FairSpec == Spec /\ Fairness

Returned == pc \in {"returned", "done"}

ResultKeys == {results[i] : i \in 1..Len(results)}

----------------------------------------------------------------------------
(* calculate_consensus.  A float is modelled by the real number it stands    *)
(* for: a rational [n, d] in lowest terms, or one of the tagged numbers       *)
(* below.  The consensus value is also computed as the floating-point sums    *)
(* deliver it, each operation rounded to Precision significant bits.          *)

GCD(a, b) ==
    LET RECURSIVE G(_, _)
        G(x, y) == IF y = 0 THEN x ELSE G(y, x % y)
        Abs(x) == IF x < 0 THEN -x ELSE x
    IN  G(Abs(a), Abs(b))

Rat(n, d) ==
    LET g == GCD(n, d)
        s == IF d < 0 THEN -1 ELSE 1
    IN  [n |-> s * (n \div g), d |-> s * (d \div g)]

RatAdd(a, b) == Rat(a.n * b.d + b.n * a.d, a.d * b.d)
RatSub(a, b) == Rat(a.n * b.d - b.n * a.d, a.d * b.d)
RatMul(a, b) == Rat(a.n * b.n, a.d * b.d)
RatDiv(a, b) == Rat(a.n * b.d, a.d * b.n)
RatLess(a, b) == a.n * b.d < b.n * a.d
Zero == Rat(0, 1)
One == Rat(1, 1)

\* Sum of a sequence of rationals, left to right as sum() and np.mean add.
RatSum(seq) ==
    LET RECURSIVE S(_, _)
        S(i, acc) == IF i > Len(seq) THEN acc ELSE S(i + 1, RatAdd(acc, seq[i]))
    IN  S(1, Zero)

\* Significand bits of the floating-point format: binary64 scaled down.
Precision == 8

PowersOfTwo ==
    <<1, 2, 4, 8, 16, 32, 64, 128, 256, 512, 1024, 2048, 4096, 8192, 16384, 32768,
      65536, 131072, 262144, 524288, 1048576, 2097152, 4194304, 8388608, 16777216,
      33554432, 67108864, 134217728, 268435456, 536870912, 1073741824>>

\* 2^k, for 0 <= k <= 30
Pow2(k) == PowersOfTwo[k + 1]

\* A normalised significand m has SignificandMin <= m < SignificandEnd.
SignificandMin == Pow2(Precision - 1)

SignificandEnd == Pow2(Precision)

\* The number of bits of x, for 1 <= x < 2^31: the k with 2^(k-1) <= x < 2^k.
BitLen(x) ==
    LET RECURSIVE B(_, _)
        B(lo, hi) == IF hi - lo = 1 THEN hi
                     ELSE IF x >= Pow2((lo + hi) \div 2) THEN B((lo + hi) \div 2, hi)
                     ELSE B(lo, (lo + hi) \div 2)
    IN  B(0, 31)

\* m / 2^k in lowest terms
RECURSIVE Dyadic(_, _)
Dyadic(m, k) ==
    IF k > 0 /\ m % 2 = 0 THEN Dyadic(m \div 2, k - 1) ELSE [n |-> m, d |-> Pow2(k)]

\* The float nearest to the rational q: Precision significant bits, round to
\* nearest, ties to even (no overflow or underflow in the ranges met here).
\* |q| = (num / den) * 2^e with SignificandMin <= num / den < SignificandEnd.
Round(q) ==
    LET a == IF q.n < 0 THEN -q.n ELSE q.n
        e0 == BitLen(a) - BitLen(q.d) - Precision
        over == (IF e0 < 0 THEN a * Pow2(-e0) ELSE a)
                    >= SignificandEnd * (IF e0 > 0 THEN q.d * Pow2(e0) ELSE q.d)
        e == IF over THEN e0 + 1 ELSE e0
        num == IF e < 0 THEN a * Pow2(-e) ELSE a
        den == IF e > 0 THEN q.d * Pow2(e) ELSE q.d
        floor == num \div den
        twice == 2 * (num % den)
        m == IF twice > den \/ (twice = den /\ floor % 2 = 1) THEN floor + 1 ELSE floor
        sign == IF q.n < 0 THEN -1 ELSE 1
    IN  IF q.n = 0 THEN Zero
        ELSE IF e >= 0 THEN [n |-> sign * m * Pow2(e), d |-> 1]
        ELSE Dyadic(sign * m, -e)

\* sum(seq) in floating point: 0 + seq[1] + seq[2] + ..., rounded at each step.
float_sum(seq) ==
    LET RECURSIVE S(_, _)
        S(i, acc) == IF i > Len(seq) THEN acc ELSE S(i + 1, Round(RatAdd(acc, seq[i])))
    IN  S(1, Zero)

\* A number of a result, as the real number the floats stand for: kind "rat" is q, kind "exp" is exp(-2*sqrt(q))
\* with q > 0, kind "sqrt" is sqrt(q) with q > 0, kind "nan" is NaN.
Num(q) == [kind |-> "rat", q |-> q]
NaN == [kind |-> "nan", q |-> Zero]
IsNaN(x) == x.kind = "nan"

\* A cell of a DataFrame column.
NaNCell == [isnan |-> TRUE, v |-> 0]
Cell(v) == [isnan |-> FALSE, v |-> v]

\* Series.dropna()
dropna(series) == SelectSeq(series, LAMBDA c : ~c.isnan)

\* Series.mean(): NaN for an empty series
SeriesMean(values) ==
    IF Len(values) = 0 THEN NaN
    ELSE Num(RatDiv(RatSum([i \in 1..Len(values) |-> Rat(values[i].v, 1)]), Rat(Len(values), 1)))

UniformWeights(s) == 100

\* self.source_weights.get(source_name, 0.5), in hundredths
source_weights(s) ==
    CASE s \in {"nasa_power", "ges_disc"} -> 100
      [] s = "openmeteo_enhanced" -> 90
      [] s = "openmeteo" -> 85
      [] s = "cptec" -> 80
      [] OTHER -> 50

\* np.mean / np.std (population) of a list of floats; NaN if any entry is NaN
AnyNaN(xs) == \E i \in 1..Len(xs) : IsNaN(xs[i])

np_mean(xs) == RatDiv(RatSum([i \in 1..Len(xs) |-> xs[i].q]), Rat(Len(xs), 1))

np_var(xs) ==
    LET m == np_mean(xs)
        sq(i) == RatMul(RatSub(xs[i].q, m), RatSub(xs[i].q, m))
    IN  RatDiv(RatSum([i \in 1..Len(xs) |-> sq(i)]), Rat(Len(xs), 1))

np_std(xs) ==
    IF AnyNaN(xs) THEN NaN
    ELSE LET var == np_var(xs)
         IN  IF var = Zero THEN Num(Zero) ELSE [kind |-> "sqrt", q |-> var]

\* _calculate_agreement: exp(-2 * std / |mean|)
_calculate_agreement(values) ==
    IF Len(values) < 2 THEN Num(One)
    ELSE IF AnyNaN(values) THEN NaN
    ELSE LET mean_val == np_mean(values)
             var == np_var(values)
         IN  IF mean_val = Zero THEN Num(One)
             ELSE IF var = Zero THEN Num(One)
             ELSE [kind |-> "exp", q |-> RatDiv(var, RatMul(mean_val, mean_val))]

\* floor(q * 10^6) for a rational 0 <= q < 1, by long division
Millionths(q) ==
    LET RECURSIVE D(_, _, _)
        D(r, k, acc) == IF k = 0 THEN acc
                        ELSE D((r * 10) % q.d, k - 1, acc * 10 + ((r * 10) \div q.d))
    IN  D(q.n, 6, 0)

\* (ln(1/t) / 2)^2 in millionths, rounded down, for the thresholds of
\* _determine_confidence: 0.002775209.., 0.020690243.., 0.120113253..
CvSquaredLimit(t) ==
    CASE t = 90 -> 2775
      [] t = 75 -> 20690
      [] t = 50 -> 120113

\* agreement_level > t/100.  exp(-2*sqrt(q)) > t/100 iff q < (ln(100/t)/2)^2;
\* every comparison with NaN is False.
Above(a, t) ==
    CASE a.kind = "nan" -> FALSE
      [] a.kind = "rat" -> a.q.n * 100 > t * a.q.d
      [] a.kind = "exp" -> a.q.n < a.q.d /\ Millionths(a.q) <= CvSquaredLimit(t)

ConfidenceOffByOne(num_sources, agreement_level) ==
    IF num_sources >= 2 /\ Above(agreement_level, 90) THEN "high"
    ELSE IF num_sources >= 1 /\ Above(agreement_level, 75) THEN "medium"
    ELSE IF num_sources >= 0 /\ Above(agreement_level, 50) THEN "low"
    ELSE "very_low"

ConfidenceIgnoringCount(num_sources, agreement_level) ==
    IF Above(agreement_level, 90) THEN "high"
    ELSE IF Above(agreement_level, 75) THEN "medium"
    ELSE IF Above(agreement_level, 50) THEN "low"
    ELSE "very_low"

_determine_confidence(num_sources, agreement_level) ==
    IF num_sources >= 3 /\ Above(agreement_level, 90) THEN "high"
    ELSE IF num_sources >= 2 /\ Above(agreement_level, 75) THEN "medium"
    ELSE IF num_sources >= 1 /\ Above(agreement_level, 50) THEN "low"
    ELSE "very_low"

FirstValue(weighted_values, weights) == RatDiv(weighted_values[1], weights[1])

\* sum(weighted_values) / sum(weights)
WeightedMean(weighted_values, weights) == RatDiv(RatSum(weighted_values), RatSum(weights))

\* sum(weighted_values) / sum(weights) as the floats deliver it
float_WeightedMean(weighted_values, weights) ==
    Round(RatDiv(float_sum(weighted_values), float_sum(weights)))

NoneResult ==
    [value |-> [null |-> TRUE, q |-> Zero, fl |-> Zero], confidence |-> "none",
     sources_used |-> <<>>, agreement_level |-> Num(Zero)]

\* The entries of multi_source_data whose frame has the parameter's column
\* (_find_parameter_column), each with its column after dropna().
values_by_source(msd) ==
    LET with_col == SelectSeq(msd, LAMBDA e : e.column)
    IN  [i \in 1..Len(with_col) |->
            [source |-> with_col[i].source, values |-> dropna(with_col[i].series)]]

calculate_consensus(msd) ==
    LET vbs == values_by_source(msd)
        used == SelectSeq(vbs, LAMBDA e : Len(e.values) > 0)
        weighted_values == [i \in 1..Len(used) |->
            RatMul(SeriesMean(used[i].values).q, Rat(source_weights(used[i].source), 100))]
        weights == [i \in 1..Len(used) |-> Rat(source_weights(used[i].source), 100)]
        consensus_value == WeightedMean(weighted_values, weights)
        float_weights == [i \in 1..Len(used) |-> Round(weights[i])]
        float_values == [i \in 1..Len(used) |->
            Round(RatMul(Round(SeriesMean(used[i].values).q), float_weights[i]))]
        all_values == [i \in 1..Len(vbs) |-> SeriesMean(vbs[i].values)]
        agreement_level == _calculate_agreement(all_values)
        std_dev == IF Len(all_values) > 1 THEN np_std(all_values) ELSE Num(Zero)
    IN  IF Len(vbs) = 0 THEN NoneResult
        ELSE IF Len(used) = 0 THEN NoneResult
        ELSE [value |-> [null |-> FALSE, q |-> consensus_value,
                         fl |-> float_WeightedMean(float_values, float_weights)],
              confidence |-> _determine_confidence(Len(used), agreement_level),
              confidence_interval |-> [centre |-> consensus_value, std |-> std_dev],
              sources_used |-> [i \in 1..Len(used) |-> used[i].source],
              agreement_level |-> agreement_level,
              source_values |-> [i \in 1..Len(vbs) |->
                                    [source |-> vbs[i].source, mean |-> all_values[i]]],
              std_deviation |-> std_dev]

\* Bound on the number of rows, over all frames of one multi_source_data.
MaxRows == 3

\* The values a cell can hold.
ValueSet == {-22, 18, 22}

Cells == {NaNCell} \cup {Cell(v) : v \in ValueSet}

\* Rows of the mapping's frames: a frame holds at least one row, since
\* fetch_multi_source_data keeps no empty frame.
Rows(msd) ==
    LET RECURSIVE N(_)
        N(i) == IF i > Len(msd) THEN 0
                ELSE (IF msd[i].column THEN Len(msd[i].series) ELSE 1) + N(i + 1)
    IN  N(1)

IdleFetch ==
    /\ caller = "direct"
    /\ parameters = {}
    /\ pc = "returned"
    /\ submitted = {}
    /\ outcome = [s \in Sources |-> "unsubmitted"]
    /\ collected = {}
    /\ results = <<>>
    /\ response = [kind |-> "pending", fields |-> {}]

ConsensusInit ==
    /\ IdleFetch
    /\ multi_source_data = <<>>
    /\ consensus = <<>>
    /\ data = [columns |-> {}, rows |-> <<>>]
    /\ day_of_year = 1
    /\ analysis = <<>>
    /\ method = <<>>
    /\ request = <<>>
    /\ report = <<>>
    /\ IdleService

\* The frames one more source can bring with `room` rows left: without the
\* parameter's column, or with a column of 1..room cells.
Frames(room) ==
    {[column |-> FALSE, series |-> <<>>] : l \in 1..(IF room > 0 THEN 1 ELSE 0)} \cup
    {[column |-> TRUE, series |-> ser] : ser \in UNION {[1..l -> Cells] : l \in 1..room}}

\* The sources of the mappings: one for each weight of source_weights (ges_disc
\* weighs what nasa_power weighs).
ConsensusSources == Sources \ {"ges_disc"}

Keys(msd) == {msd[i].source : i \in 1..Len(msd)}

\* One more source's frame enters the mapping (in any order of the sources).
AddSource(s, df) ==
    /\ consensus = <<>>
    /\ s \notin Keys(multi_source_data)
    /\ multi_source_data' =
          Append(multi_source_data, [source |-> s, column |-> df.column, series |-> df.series])
    /\ UNCHANGED <<consensus, fetchVars, analyzerVars, apiVars, serviceVars>>

CalculateConsensus ==
    /\ consensus = <<>>
    /\ consensus' = <<calculate_consensus(multi_source_data)>>
    /\ UNCHANGED <<multi_source_data, fetchVars, analyzerVars, apiVars, serviceVars>>

ConsensusNext ==
    \/ \E s \in ConsensusSources :
         \E df \in Frames(MaxRows - Rows(multi_source_data)) : AddSource(s, df)
    \/ CalculateConsensus

ConsensusSpec == ConsensusInit /\ [][ConsensusNext]_vars

----------------------------------------------------------------------------
(* StatisticalAnalyzer.                                                     *)
(* A DataFrame is [columns, rows]: the set of its weather columns and its   *)
(* rows in order; every frame carries the day_of_year column the docstring  *)
(* asks for. A row holds its day_of_year and its readings (a reading is     *)
(* read only when the frame has its column).                                *)

\* What a call does: raise, or return its result.
Raised(exception) == [raised |-> TRUE, exception |-> exception]

Returns(result) == [raised |-> FALSE, result |-> result]

\* Python's None
None == [none |-> TRUE]

\* WeatherConfig.CLOUD_THRESHOLDS
CLOUD_THRESHOLDS == [clear |-> 25, partly_cloudy |-> 50, mostly_cloudy |-> 75, overcast |-> 90]

AllRows(df, d) == df.rows

\* data[data['day_of_year'] == day_of_year]
day_data(df, d) == SelectSeq(df.rows, LAMBDA row : row.day_of_year = d)

CountTrue(mask) == Rat(Cardinality({i \in 1..Len(mask) : mask[i]}), 1)

\* (condition).mean(): the share of True in a boolean Series
Share(mask) == Rat(Cardinality({i \in 1..Len(mask) : mask[i]}), Len(mask))

\* A threshold that is a plain number
Number(v) == [number |-> v]

\* WeatherConfig.TEMPERATURE_THRESHOLDS, the entries _analyze_temperature reads
TEMPERATURE_THRESHOLDS ==
    [very_cold |-> Number(-10), cold |-> Number(0), hot |-> Number(32), very_hot |-> Number(38)]

\* entry[key]: a number cannot be subscripted, a dict may lack the key
getitem(entry, key) ==
    IF key \in DOMAIN entry THEN Returns(entry[key])
    ELSE IF "number" \in DOMAIN entry THEN Raised("TypeError")
    ELSE Raised("KeyError")

\* sorted(values), by insertion
RECURSIVE sorted_from(_, _, _)
sorted_from(rows, col, i) ==
    IF i > Len(rows) THEN <<>>
    ELSE LET rest == sorted_from(rows, col, i + 1)
             less == SelectSeq(rest, LAMBDA v : v < rows[i][col])
             more == SelectSeq(rest, LAMBDA v : v >= rows[i][col])
         IN  less \o <<rows[i][col]>> \o more

\* Series.quantile(percent / 100) of a sorted column: linear interpolation at
\* position (n - 1) * q
quantile_at(ordered, lower, part) ==
    IF part = 0 THEN Rat(ordered[lower + 1], 1)
    ELSE RatAdd(Rat(ordered[lower + 1], 1),
                RatMul(Rat(part, 100), Rat(ordered[lower + 2] - ordered[lower + 1], 1)))

quantile(rows, col, percent) ==
    quantile_at(sorted_from(rows, col, 1), ((Len(rows) - 1) * percent) \div 100,
                ((Len(rows) - 1) * percent) % 100)

\* max(a, b) and min(a, b) of two numbers: a unless b is strictly beyond it
builtin_max(a, b) == IF RatLess(a, b) THEN b ELSE a

builtin_min(a, b) == IF RatLess(b, a) THEN b ELSE a

\* (column > threshold).mean() and (column < threshold).mean()
ShareAbove(rows, col, threshold) ==
    Share([i \in 1..Len(rows) |-> RatLess(threshold, Rat(rows[i][col], 1))])

ShareBelow(rows, col, threshold) ==
    Share([i \in 1..Len(rows) |-> RatLess(Rat(rows[i][col], 1), threshold)])

HottestOnly(percentile_90, absolute_min) == builtin_min(percentile_90, absolute_min)

very_hot_threshold(percentile_90, absolute_min) == builtin_max(percentile_90, absolute_min)

hot_threshold(percentile_75, absolute_min) == builtin_max(percentile_75, absolute_min)

very_cold_threshold(percentile_10, absolute_min) == builtin_min(percentile_10, absolute_min)

cold_threshold(percentile_25, absolute_max) == builtin_min(percentile_25, absolute_max)

\* (temp_mean >= 15) & (temp_mean <= 25), when the frame has T2M
comfortable_temp(columns, rows) ==
    IF "T2M" \in columns
    THEN [comfortable_temperature |->
            Share([i \in 1..Len(rows) |-> rows[i].T2M >= 15 /\ rows[i].T2M <= 25])]
    ELSE <<>>

TemperatureProbabilities(very_hot, hot, very_cold, cold, columns, rows) ==
    [very_hot |-> ShareAbove(rows, "T2M_MAX",
                      very_hot_threshold(quantile(rows, "T2M_MAX", 90), Rat(very_hot, 1))),
     hot |-> ShareAbove(rows, "T2M_MAX",
                      hot_threshold(quantile(rows, "T2M_MAX", 75), Rat(hot, 1))),
     very_cold |-> ShareBelow(rows, "T2M_MIN",
                      very_cold_threshold(quantile(rows, "T2M_MIN", 10), Rat(very_cold, 1))),
     cold |-> ShareBelow(rows, "T2M_MIN",
                      cold_threshold(quantile(rows, "T2M_MIN", 25), Rat(cold, 1)))]
        @@ comfortable_temp(columns, rows)

TemperatureRead(very_hot, hot, very_cold, cold, columns, rows) ==
    IF very_hot.raised THEN very_hot
    ELSE IF hot.raised THEN hot
    ELSE IF very_cold.raised THEN very_cold
    ELSE IF cold.raised THEN cold
    ELSE Returns(TemperatureProbabilities(very_hot.result, hot.result, very_cold.result,
                                          cold.result, columns, rows))

\* With WeatherConfig's own thresholds the first one read is the number 38,
\* subscripted with ['absolute_min']: TypeError, before any probability is
\* stored.
_analyze_temperature(thresholds, columns, rows) ==
    TemperatureRead(getitem(thresholds.very_hot, "absolute_min"),
                    getitem(thresholds.hot, "absolute_min"),
                    getitem(thresholds.very_cold, "absolute_min"),
                    getitem(thresholds.cold, "absolute_max"), columns, rows)

\* PRECIPITATION_THRESHOLDS has no key 'very_wet', the first one read: KeyError.
_analyze_precipitation(rows) == Raised("KeyError")

\* WIND_THRESHOLDS has no key 'very_windy', the first one read: KeyError.
_analyze_wind(rows) == Raised("KeyError")

\* WeatherConfig has COMFORT_INDEX_THRESHOLDS but no attribute COMFORT_INDEX,
\* read right after the heat indices are computed: AttributeError.
_analyze_comfort(rows) == Raised("AttributeError")

_analyze_cloudiness(rows) ==
    LET cloud == [i \in 1..Len(rows) |-> rows[i].CLOUD_AMT]
        t == CLOUD_THRESHOLDS
    IN  Returns(
          [clear |-> Share([i \in 1..Len(cloud) |-> cloud[i] < t.clear]),
           partly_cloudy |-> Share([i \in 1..Len(cloud) |->
                                cloud[i] >= t.clear /\ cloud[i] < t.partly_cloudy]),
           mostly_cloudy |-> Share([i \in 1..Len(cloud) |->
                                cloud[i] >= t.partly_cloudy /\ cloud[i] < t.mostly_cloudy]),
           overcast |-> Share([i \in 1..Len(cloud) |-> cloud[i] >= t.overcast])])

\* Series.mean(), .min() and .max() of a column of whole-number readings
ColumnMean(rows, col) ==
    RatDiv(RatSum([i \in 1..Len(rows) |-> Rat(rows[i][col], 1)]), Rat(Len(rows), 1))

ColumnMin(rows, col) ==
    LET c == {rows[i][col] : i \in 1..Len(rows)} IN CHOOSE v \in c : \A w \in c : v <= w

ColumnMax(rows, col) ==
    LET c == {rows[i][col] : i \in 1..Len(rows)} IN CHOOSE v \in c : \A w \in c : v >= w

\* The entries for the columns modelled (mean, min and max of each; the spread
\* and percentile entries are left out). The precipitation and wind entries
\* are never built: with their columns the category analysis has raised.
_calculate_statistics(columns, rows) ==
    (IF "T2M" \in columns
     THEN [temperature |->
             [mean |-> ColumnMean(rows, "T2M"),
              min |-> IF "T2M_MIN" \in columns
                      THEN Rat(ColumnMin(rows, "T2M_MIN"), 1) ELSE None,
              max |-> IF "T2M_MAX" \in columns
                      THEN Rat(ColumnMax(rows, "T2M_MAX"), 1) ELSE None]]
     ELSE <<>>) @@
    (IF "RH2M" \in columns
     THEN [humidity |->
             [mean |-> ColumnMean(rows, "RH2M"),
              min |-> ColumnMin(rows, "RH2M"),
              max |-> ColumnMax(rows, "RH2M")]]
     ELSE <<>>) @@
    (IF "CLOUD_AMT" \in columns
     THEN [cloudiness |->
             [mean |-> ColumnMean(rows, "CLOUD_AMT"),
              min |-> ColumnMin(rows, "CLOUD_AMT"),
              max |-> ColumnMax(rows, "CLOUD_AMT")]]
     ELSE <<>>)

\* Days of the months of 2024, the year of the example date.
MonthDays == <<31, 29, 31, 30, 31, 30, 31, 31, 30, 31, 30, 31>>

\* (datetime(2024, 1, 1) + (day_of_year - 1) days).strftime('%B %d'), as
\* <<month number, day of month>>, for the days of that year.
_day_to_date_string(d) ==
    LET RECURSIVE Date(_, _)
        Date(m, left) == IF left <= MonthDays[m] THEN <<m, left>>
                         ELSE Date(m + 1, left - MonthDays[m])
    IN  Date(1, d)

\* analyze_day of an analyzer whose config has these temperature thresholds
\* and is WeatherConfig's otherwise
AnalyzeDayUnder(thresholds, df, d) ==
    LET rows == day_data(df, d)
        temp == IF {"T2M_MAX", "T2M_MIN"} \subseteq df.columns
                THEN _analyze_temperature(thresholds, df.columns, rows) ELSE Returns(<<>>)
        precip == IF "PRECTOTCORR" \in df.columns
                  THEN _analyze_precipitation(rows) ELSE Returns(<<>>)
        wind == IF "WS2M" \in df.columns
                THEN _analyze_wind(rows) ELSE Returns(<<>>)
        comfort == IF {"T2M", "RH2M"} \subseteq df.columns
                   THEN _analyze_comfort(rows) ELSE Returns(<<>>)
        cloud == IF "CLOUD_AMT" \in df.columns
                 THEN _analyze_cloudiness(rows) ELSE Returns(<<>>)
    IN  IF Len(rows) = 0
        THEN Returns([error |-> <<"no data for day", d>>, day_of_year |-> d])
        ELSE IF temp.raised THEN temp
        ELSE IF precip.raised THEN precip
        ELSE IF wind.raised THEN wind
        ELSE IF comfort.raised THEN comfort
        ELSE IF cloud.raised THEN cloud
        ELSE Returns([day_of_year |-> d,
                      date_example |-> _day_to_date_string(d),
                      probabilities |-> temp.result @@ precip.result @@ wind.result
                                            @@ comfort.result @@ cloud.result,
                      statistics |-> _calculate_statistics(df.columns, rows),
                      data_points |-> Len(rows)])

\* analyze_day of StatisticalAnalyzer(): self.config = config or WeatherConfig()
analyze_day(df, d) == AnalyzeDayUnder(TEMPERATURE_THRESHOLDS, df, d)

\* for day in range(start_day, end_day + 1): results.append(analyze_day(...))
analyze_date_range(df, start_day, end_day) ==
    LET RECURSIVE Loop(_, _)
        Loop(day, done) ==
            IF day > end_day THEN Returns(done)
            ELSE LET result == analyze_day(df, day)
                 IN  IF result.raised THEN result
                     ELSE Loop(day + 1, Append(done, result.result))
    IN  Loop(start_day, <<>>)

\* The headline categories of get_summary_probabilities
SummaryKeys ==
    {"very_cold", "cold", "comfortable", "hot", "very_hot", "very_wet", "very_windy",
     "very_uncomfortable"}

\* probs.get(key, default)
Get(dict, key, default) == IF key \in DOMAIN dict THEN dict[key] ELSE default

AllProbabilities(probs) == probs

\* summary = {key: probs.get(key, 0.0) for the eight keys}
SummaryOf(probs) == [k \in SummaryKeys |-> Get(probs, k, Zero)]

\* The summary built from the outcome of analyze_day
Summarise(d, full_analysis) ==
    IF full_analysis.raised THEN full_analysis
    ELSE IF "error" \in DOMAIN full_analysis.result THEN full_analysis
    ELSE Returns([day_of_year |-> d,
                  date_example |-> full_analysis.result.date_example,
                  probabilities |-> SummaryOf(full_analysis.result.probabilities),
                  statistics |-> full_analysis.result.statistics])

get_summary_probabilities(df, d) == Summarise(d, analyze_day(df, d))

\* Bound on the number of rows of the historical frame.
MaxHistory == 2

\* Bound on the number of days past start_day of an analyze_date_range call.
MaxSpan == 2

Columns == {"T2M_MAX", "T2M_MIN", "PRECTOTCORR", "CLOUD_AMT", "T2M"}

\* Days that have rows, and the days asked for (366 never has a row).
DataDays == {1, 60}

QueryDays == DataDays \cup {366}

CloudValues == {10, 80, 95}

\* A row of the frames analysed directly: every year has the same temperatures.
Readings ==
    [day_of_year : DataDays, CLOUD_AMT : CloudValues, T2M : {25}, T2M_MAX : {35},
     T2M_MIN : {20}, RH2M : {50}]

DataFrames ==
    {[columns |-> c, rows |-> r] :
        c \in SUBSET Columns,
        r \in UNION {[1..l -> Readings] : l \in 0..MaxHistory}}

AnalyzerInit ==
    /\ IdleFetch
    /\ multi_source_data = <<>>
    /\ consensus = <<>>
    /\ data \in DataFrames
    /\ day_of_year \in QueryDays
    /\ analysis = <<>>
    /\ method = <<>>
    /\ request = <<>>
    /\ report = <<>>
    /\ IdleService

AnalyzeDay ==
    /\ analysis = <<>>
    /\ analysis' = <<analyze_day(data, day_of_year)>>
    /\ method' = <<"analyze_day">>
    /\ UNCHANGED <<data, day_of_year, fetchVars, consensusVars, apiVars, serviceVars>>

GetSummaryProbabilities ==
    /\ analysis = <<>>
    /\ analysis' = <<get_summary_probabilities(data, day_of_year)>>
    /\ method' = <<"get_summary_probabilities">>
    /\ UNCHANGED <<data, day_of_year, fetchVars, consensusVars, apiVars, serviceVars>>

AnalyzeDateRange(end_day) ==
    /\ analysis = <<>>
    /\ analysis' = <<analyze_date_range(data, day_of_year, end_day)>>
    /\ method' = <<"analyze_date_range", end_day>>
    /\ UNCHANGED <<data, day_of_year, fetchVars, consensusVars, apiVars, serviceVars>>

AnalyzerNext ==
    \/ AnalyzeDay
    \/ GetSummaryProbabilities
    \/ \E span \in 0..MaxSpan : AnalyzeDateRange(day_of_year + span)

AnalyzerSpec == AnalyzerInit /\ [][AnalyzerNext]_vars

----------------------------------------------------------------------------
(* Dates. A date string is the sequence of its characters; a datetime is     *)
(* [year, month, day].                                                       *)

DigitChars == <<"0", "1", "2", "3", "4", "5", "6", "7", "8", "9">>

IsDigit(c) == \E k \in 1..10 : DigitChars[k] = c

DigitValue(c) == (CHOOSE k \in 1..10 : DigitChars[k] = c) - 1

AllDigits(t) == \A i \in 1..Len(t) : IsDigit(t[i])

\* int(t) of a string of digits
RECURSIVE Decimal(_)
Decimal(t) ==
    IF Len(t) = 0 THEN 0
    ELSE 10 * Decimal(SubSeq(t, 1, Len(t) - 1)) + DigitValue(t[Len(t)])

\* n written with at least `width` digits, zero-padded (%Y, %m, %d of strftime)
RECURSIVE Padded(_, _)
Padded(n, width) ==
    IF n < 10 /\ width <= 1 THEN <<DigitChars[n + 1]>>
    ELSE Append(Padded(n \div 10, width - 1), DigitChars[(n % 10) + 1])

IsLeap(year) == (year % 4 = 0 /\ year % 100 # 0) \/ year % 400 = 0

DaysInMonth(year, month) ==
    IF month = 2 THEN (IF IsLeap(year) THEN 29 ELSE 28)
    ELSE IF month \in {4, 6, 9, 11} THEN 30 ELSE 31

\* A parser of the same shape that takes any day number from 1 to 31
ParseAnyDay(s) ==
    LET dashes == {i \in 1..Len(s) : s[i] = "-"}
        first == CHOOSE i \in dashes : \A j \in dashes : i <= j
        last == CHOOSE i \in dashes : \A j \in dashes : i >= j
        Y == SubSeq(s, 1, first - 1)
        m == SubSeq(s, first + 1, last - 1)
        d == SubSeq(s, last + 1, Len(s))
    IN  IF Cardinality(dashes) # 2 THEN Raised("ValueError")
        ELSE IF ~(AllDigits(Y) /\ AllDigits(m) /\ AllDigits(d)) THEN Raised("ValueError")
        ELSE IF Len(Y) # 4 \/ Len(m) \notin {1, 2} \/ Len(d) \notin {1, 2}
             THEN Raised("ValueError")
        ELSE IF Decimal(Y) >= 1 /\ Decimal(m) \in 1..12 /\ Decimal(d) \in 1..31
             THEN Returns([year |-> Decimal(Y), month |-> Decimal(m), day |-> Decimal(d)])
        ELSE Raised("ValueError")

\* datetime.strptime(s, '%Y-%m-%d'): the year takes four digits, month and day
\* one or two (the leading zero is optional when parsing), nothing may remain,
\* and datetime(year, month, day) must exist; ValueError otherwise.
strptime(s) ==
    LET dashes == {i \in 1..Len(s) : s[i] = "-"}
        first == CHOOSE i \in dashes : \A j \in dashes : i <= j
        last == CHOOSE i \in dashes : \A j \in dashes : i >= j
        Y == SubSeq(s, 1, first - 1)
        m == SubSeq(s, first + 1, last - 1)
        d == SubSeq(s, last + 1, Len(s))
    IN  IF Cardinality(dashes) # 2 THEN Raised("ValueError")
        ELSE IF ~(AllDigits(Y) /\ AllDigits(m) /\ AllDigits(d)) THEN Raised("ValueError")
        ELSE IF Len(Y) # 4 \/ Len(m) \notin {1, 2} \/ Len(d) \notin {1, 2}
             THEN Raised("ValueError")
        ELSE IF Decimal(Y) >= 1 /\ Decimal(m) \in 1..12 /\ Decimal(d) >= 1
                /\ Decimal(d) <= DaysInMonth(Decimal(Y), Decimal(m))
             THEN Returns([year |-> Decimal(Y), month |-> Decimal(m), day |-> Decimal(d)])
        ELSE Raised("ValueError")

\* date.strftime('%Y-%m-%d')
strftime(date) ==
    Padded(date.year, 4) \o <<"-">> \o Padded(date.month, 2) \o <<"-">> \o Padded(date.day, 2)

\* date.timetuple().tm_yday
tm_yday(date) ==
    LET RECURSIVE Before(_)
        Before(month) == IF month = 1 THEN 0
                         ELSE Before(month - 1) + DaysInMonth(date.year, month - 1)
    IN  Before(date.month) + date.day

\* date.toordinal(): days since 0001-01-01, which has ordinal 1
toordinal(date) ==
    LET y == date.year - 1
    IN  365 * y + (y \div 4) - (y \div 100) + (y \div 400) + tm_yday(date)

\* date.strftime('%A'), as date.weekday(): 0 is Monday
weekday(date) == (toordinal(date) + 6) % 7

\* date + timedelta(days=1)
NextDay(date) ==
    IF date.day < DaysInMonth(date.year, date.month)
    THEN [date EXCEPT !.day = date.day + 1]
    ELSE IF date.month < 12 THEN [date EXCEPT !.month = date.month + 1, !.day = 1]
    ELSE [year |-> date.year + 1, month |-> 1, day |-> 1]

\* date_to_day_of_year(date_str)
date_to_day_of_year(date_str) ==
    LET date == strptime(date_str)
    IN  IF date.raised THEN date ELSE Returns(tm_yday(date.result))

----------------------------------------------------------------------------
(* The Python API on the single-source path (use_multi_source=False,         *)
(* units=None). `fetched` is what WeatherDataService.get_data did: it raised, *)
(* or returned (historical_data, source). An outcome carries `calls`, the     *)
(* calls made on the data service, in order.                                  *)

Did(out, calls) == out @@ [calls |-> calls]

\* np.argmin(xs), np.argmax(xs): the first position of the least, of the
\* greatest value; positions count from 1 here.
argmin(xs) ==
    CHOOSE i \in 1..Len(xs) :
        /\ \A j \in 1..Len(xs) : ~RatLess(xs[j], xs[i])
        /\ \A j \in 1..(i - 1) : RatLess(xs[i], xs[j])

argmax(xs) ==
    CHOOSE i \in 1..Len(xs) :
        /\ \A j \in 1..Len(xs) : ~RatLess(xs[i], xs[j])
        /\ \A j \in 1..(i - 1) : RatLess(xs[j], xs[i])

\* np.mean(values) of a non-empty list
ListMean(values) == RatDiv(RatSum(values), Rat(Len(values), 1))

bad_weather_score(probs) ==
    RatAdd(RatMul(Get(probs, "very_cold", Zero), Rat(2, 1)),
    RatAdd(RatMul(Get(probs, "very_hot", Zero), Rat(2, 1)),
    RatAdd(RatMul(Get(probs, "very_wet", Zero), Rat(3, 1)),
    RatAdd(RatMul(Get(probs, "very_windy", Zero), Rat(3, 2)),
           RatMul(Get(probs, "very_uncomfortable", Zero), Rat(2, 1))))))

\* An entry numbered by the day of the month
EntryByDayOfMonth(current_date, analysis_of_day) ==
    [date |-> strftime(current_date),
     day_of_year |-> current_date.day,
     day_name |-> weekday(current_date),
     probabilities |-> Get(analysis_of_day, "probabilities", <<>>),
     statistics |-> Get(analysis_of_day, "statistics", <<>>),
     data_points |-> Get(analysis_of_day, "data_points", 0)]

\* The entry of daily_results built from one day's analysis
DailyEntry(current_date, analysis_of_day) ==
    [date |-> strftime(current_date),
     day_of_year |-> tm_yday(current_date),
     day_name |-> weekday(current_date),
     probabilities |-> Get(analysis_of_day, "probabilities", <<>>),
     statistics |-> Get(analysis_of_day, "statistics", <<>>),
     data_points |-> Get(analysis_of_day, "data_points", 0)]

\* while current_date <= end_dt: ... current_date += timedelta(days=1)
RECURSIVE DailyLoop(_, _, _, _)
\* The rest of an iteration, given the outcome of analyze_day
DailyStep(historical_data, current_date, end_dt, daily_results, a) ==
    IF a.raised THEN a
    ELSE DailyLoop(historical_data, NextDay(current_date), end_dt,
                   Append(daily_results, DailyEntry(current_date, a.result)))

DailyLoop(historical_data, current_date, end_dt, daily_results) ==
    IF toordinal(current_date) > toordinal(end_dt) THEN Returns(daily_results)
    ELSE DailyStep(historical_data, current_date, end_dt, daily_results,
                   analyze_day(historical_data, tm_yday(current_date)))

daily_loop(historical_data, start_dt, end_dt) ==
    DailyLoop(historical_data, start_dt, end_dt, <<>>)

\* all_stats[name]: the means of the days whose statistics have `name`
all_stats(daily_results, name) ==
    LET Has(day) == name \in DOMAIN day.statistics
        days == SelectSeq(daily_results, Has)
    IN  [i \in 1..Len(days) |-> days[i].statistics[name].mean]

\* all_probs[prob_name]: the values of the days that have the probability
all_probs(daily_results, prob_name) ==
    LET Has(day) == prob_name \in DOMAIN day.probabilities
        days == SelectSeq(daily_results, Has)
    IN  [i \in 1..Len(days) |-> days[i].probabilities[prob_name]]

aggregated_probs(daily_results) ==
    LET names == UNION {DOMAIN daily_results[i].probabilities : i \in 1..Len(daily_results)}
    IN  [prob_name \in names |-> ListMean(all_probs(daily_results, prob_name))]

aggregated_stats(daily_results) ==
    LET temperature == all_stats(daily_results, "temperature")
        humidity == all_stats(daily_results, "humidity")
    IN  (IF Len(temperature) > 0
         THEN [temperature |->
                 [mean |-> ListMean(temperature),
                  min |-> temperature[argmin(temperature)],
                  max |-> temperature[argmax(temperature)]]]
         ELSE <<>>) @@
        (IF Len(humidity) > 0 THEN [humidity |-> [mean |-> ListMean(humidity)]] ELSE <<>>)

best_days(daily_results) ==
    LET outdoor_scores ==
            [i \in 1..Len(daily_results) |-> bad_weather_score(daily_results[i].probabilities)]
        rain_scores ==
            [i \in 1..Len(daily_results) |-> Get(daily_results[i].probabilities, "very_wet", Zero)]
        temperature == all_stats(daily_results, "temperature")
    IN  [outdoor_activity |-> daily_results[argmin(outdoor_scores)].date,
         minimal_rain |-> daily_results[argmin(rain_scores)].date] @@
        (IF Len(temperature) > 0
         THEN [warmest |-> daily_results[argmax(temperature)].date,
               coldest |-> daily_results[argmin(temperature)].date]
         ELSE <<>>)

RECURSIVE SumDataPoints(_)
SumDataPoints(daily_results) ==
    IF Len(daily_results) = 0 THEN 0
    ELSE daily_results[1].data_points + SumDataPoints(Tail(daily_results))

\* The calls made on the data service once validation has passed
service == <<"WeatherDataService", "get_data">>

\* analyze_weather_range from the aggregation on, given the outcome of the loop
RangeResult(latitude, longitude, start_date, end_date, source, duration_days, days) ==
    IF days.raised THEN Did(days, service)
    ELSE Did(Returns(
             [location |-> [latitude |-> latitude, longitude |-> longitude],
              date_range |-> [start |-> start_date, end |-> end_date,
                              duration_days |-> duration_days],
              aggregated |-> [probabilities |-> aggregated_probs(days.result),
                              statistics |-> aggregated_stats(days.result),
                              best_days |-> best_days(days.result)],
              daily_breakdown |-> days.result,
              metadata |-> [data_source |-> source,
                            total_data_points |-> SumDataPoints(days.result)]]),
             service)

\* analyze_weather_range after the coordinate checks, given the parsed dates
RangeBetween(latitude, longitude, start_date, end_date, fetched, start_dt, end_dt) ==
    IF start_dt.raised THEN Did(start_dt, <<>>)
    ELSE IF end_dt.raised THEN Did(end_dt, <<>>)
    ELSE IF toordinal(start_dt.result) > toordinal(end_dt.result)
         THEN Did(Raised("ValueError"), <<>>)
    ELSE IF fetched.raised
         THEN Did(Returns([error |-> fetched.exception,
                           location |-> [latitude |-> latitude, longitude |-> longitude],
                           date_range |-> [start |-> start_date, end |-> end_date]]),
                  service)
    ELSE RangeResult(latitude, longitude, start_date, end_date, fetched.result.source,
                     (toordinal(end_dt.result) - toordinal(start_dt.result)) + 1,
                     daily_loop(fetched.result.data, start_dt.result, end_dt.result))

analyze_weather_range(latitude, longitude, start_date, end_date, fetched) ==
    IF ~(-90 <= latitude /\ latitude <= 90) THEN Did(Raised("ValueError"), <<>>)
    ELSE IF ~(-180 <= longitude /\ longitude <= 180) THEN Did(Raised("ValueError"), <<>>)
    ELSE RangeBetween(latitude, longitude, start_date, end_date, fetched,
                      strptime(start_date), strptime(end_date))

\* analyze_weather from the result dict on, given the outcome of the analysis
WeatherResult(latitude, longitude, date, detailed, source, day, a) ==
    IF a.raised THEN Did(a, service)
    ELSE Did(Returns(
             [location |-> [latitude |-> latitude, longitude |-> longitude],
              date |-> date,
              day_of_year |-> day,
              date_name |-> Get(a.result, "date_example", <<>>),
              probabilities |-> Get(a.result, "probabilities", <<>>),
              statistics |-> Get(a.result, "statistics", <<>>),
              metadata |-> [data_source |-> source,
                            data_points |-> Get(a.result, "data_points", 0),
                            analysis_type |-> IF detailed THEN "detailed" ELSE "summary"]]),
             service)

\* analyze_weather after the coordinate checks, given the outcome of
\* date_to_day_of_year
WeatherOnDay(latitude, longitude, date, detailed, fetched, day) ==
    IF day.raised THEN Did(day, <<>>)
    ELSE IF fetched.raised
         THEN Did(Returns([error |-> fetched.exception,
                           location |-> [latitude |-> latitude, longitude |-> longitude],
                           date |-> date]),
                  service)
    ELSE WeatherResult(latitude, longitude, date, detailed, fetched.result.source, day.result,
                       IF detailed THEN analyze_day(fetched.result.data, day.result)
                       ELSE get_summary_probabilities(fetched.result.data, day.result))

analyze_weather(latitude, longitude, date, detailed, fetched) ==
    IF ~(-90 <= latitude /\ latitude <= 90) THEN Did(Raised("ValueError"), <<>>)
    ELSE IF ~(-180 <= longitude /\ longitude <= 180) THEN Did(Raised("ValueError"), <<>>)
    ELSE WeatherOnDay(latitude, longitude, date, detailed, fetched, date_to_day_of_year(date))

RECURSIVE DatesLoop(_, _, _, _)
\* The rest of an iteration, given the outcome of get_summary_probabilities
DatesStep(historical_data, dates, i, done, day, a) ==
    IF a.raised THEN a
    ELSE IF "probabilities" \notin DOMAIN a.result THEN Raised("KeyError")
    ELSE DatesLoop(historical_data, dates, i + 1,
                   Append(done, [date |-> dates[i],
                                 day_of_year |-> day,
                                 probabilities |-> a.result.probabilities,
                                 statistics |-> a.result.statistics]))

\* The rest of an iteration, given the outcome of date_to_day_of_year
DatesDay(historical_data, dates, i, done, day) ==
    IF day.raised THEN day
    ELSE DatesStep(historical_data, dates, i, done, day.result,
                   get_summary_probabilities(historical_data, day.result))

\* for date in dates: ...
DatesLoop(historical_data, dates, i, done) ==
    IF i > Len(dates) THEN Returns(done)
    ELSE DatesDay(historical_data, dates, i, done, date_to_day_of_year(dates[i]))

\* No validation: the data is fetched first, then each date is parsed.
analyze_multiple_dates(latitude, longitude, dates, fetched) ==
    IF fetched.raised THEN Did(fetched, service)
    ELSE Did(DatesLoop(fetched.result.data, dates, 1, <<>>), service)

----------------------------------------------------------------------------
(* Calls on the Python API: one call per behaviour, whole function per step  *)

MakeDate(year, month, day) == [year |-> year, month |-> month, day |-> day]

\* Calendar dates asked about: around a year end, around 29 February of a
\* leap year and around the end of February of a common year.
RequestDates ==
    {MakeDate(2023, 12, 31), MakeDate(2024, 1, 1), MakeDate(2024, 2, 28),
     MakeDate(2024, 2, 29), MakeDate(2024, 3, 1), MakeDate(2023, 2, 28),
     MakeDate(2023, 3, 1)}

\* '2024-3-1', '15-06-2024', '2023-02-29' and ''
OddDateStrings ==
    {<<"2", "0", "2", "4", "-", "3", "-", "1">>,
     <<"1", "5", "-", "0", "6", "-", "2", "0", "2", "4">>,
     strftime(MakeDate(2023, 2, 29)),
     <<>>}

DateStrings == {strftime(d) : d \in RequestDates} \cup OddDateStrings

\* <<latitude, longitude>>, in whole degrees
Coordinates ==
    {<<0, 0>>, <<90, 180>>, <<-90, -180>>, <<91, 0>>, <<-91, 0>>, <<0, 181>>, <<0, -181>>}

DateLists ==
    {<<d>> : d \in DateStrings} \cup
    {<<strftime(MakeDate(2024, 2, 29)), d>> : d \in DateStrings}

ApiRequests ==
    {[fn |-> "analyze_weather_range", latitude |-> c[1], longitude |-> c[2],
      start_date |-> s, end_date |-> e] :
        c \in Coordinates, s \in DateStrings, e \in DateStrings}
    \cup
    {[fn |-> "analyze_weather", latitude |-> c[1], longitude |-> c[2],
      date |-> d, detailed |-> b] :
        c \in Coordinates, d \in DateStrings, b \in BOOLEAN}
    \cup
    {[fn |-> "analyze_multiple_dates", latitude |-> c[1], longitude |-> c[2],
      dates |-> l] :
        c \in Coordinates, l \in DateLists}

\* Bound on the number of days of a range analysed.
MaxRangeDays == 3

\* date_str parses
Parses(date_str) == ~strptime(date_str).raised

\* The days of the year the request asks about
RECURSIVE DaysFrom(_, _)
DaysFrom(current_date, end_dt) ==
    IF toordinal(current_date) > toordinal(end_dt) THEN {}
    ELSE {tm_yday(current_date)} \cup DaysFrom(NextDay(current_date), end_dt)

\* (end_dt - start_dt).days + 1 of a range request whose dates parse
RangeLength(r) ==
    (toordinal(strptime(r.end_date).result) - toordinal(strptime(r.start_date).result)) + 1

RequestedDays(r) ==
    IF r.fn = "analyze_weather_range"
    THEN IF Parses(r.start_date) /\ Parses(r.end_date) /\ RangeLength(r) <= MaxRangeDays
         THEN DaysFrom(strptime(r.start_date).result, strptime(r.end_date).result)
         ELSE {}
    ELSE IF r.fn = "analyze_weather"
    THEN IF Parses(r.date) THEN {tm_yday(strptime(r.date).result)} ELSE {}
    ELSE {tm_yday(strptime(r.dates[i]).result) : i \in {j \in 1..Len(r.dates) : Parses(r.dates[j])}}

\* The column sets get_data may bring: NASA POWER answers with the parameters
\* it has, Open-Meteo with temperatures, precipitation, wind and humidity.
FetchedColumns ==
    {{"CLOUD_AMT"}, {"T2M"}, {"T2M", "CLOUD_AMT"}, {"T2M_MAX", "T2M_MIN", "T2M"},
     {"WS2M"}, {"T2M_MAX", "T2M_MIN", "T2M", "PRECTOTCORR", "WS2M", "RH2M"}}

\* What get_data can do: raise, or return a frame with rows for some of the
\* days asked about.
FetchesOf(days) ==
    {Raised("Exception")} \cup
    {Returns([data |-> [columns |-> c, rows |-> rows], source |-> "nasa"]) :
        c \in FetchedColumns,
        rows \in UNION {[1..l -> [day_of_year : days, CLOUD_AMT : {10},
                                   T2M : {10, 20}, T2M_MAX : {35}, T2M_MIN : {20},
                                   RH2M : {50}]] : l \in 0..MaxHistory}}

Fetches(r) == FetchesOf(RequestedDays(r))

ApiInit ==
    /\ IdleFetch
    /\ multi_source_data = <<>>
    /\ consensus = <<>>
    /\ data = [columns |-> {}, rows |-> <<>>]
    /\ day_of_year = 1
    /\ analysis = <<>>
    /\ method = <<>>
    /\ request \in ApiRequests
    /\ report = <<>>
    /\ IdleService

\* The frame the call has read, if it got one
Fetched(out, fetched) ==
    IF out.calls # <<>> /\ ~fetched.raised THEN fetched.result.data ELSE data

\* The call has ended with `out`
Ended(out, fetched) ==
    /\ report' = <<out>>
    /\ data' = Fetched(out, fetched)

AnalyzeWeatherRange ==
    /\ report = <<>>
    /\ request.fn = "analyze_weather_range"
    /\ Parses(request.start_date) /\ Parses(request.end_date)
         => RangeLength(request) <= MaxRangeDays
    /\ \E fetched \in Fetches(request) :
         Ended(analyze_weather_range(request.latitude, request.longitude,
                                      request.start_date, request.end_date, fetched),
                fetched)
    /\ UNCHANGED <<request, day_of_year, analysis, method, fetchVars, consensusVars, serviceVars>>

AnalyzeWeatherSingle ==
    /\ report = <<>>
    /\ request.fn = "analyze_weather"
    /\ \E fetched \in Fetches(request) :
         Ended(analyze_weather(request.latitude, request.longitude, request.date,
                                request.detailed, fetched),
                fetched)
    /\ UNCHANGED <<request, day_of_year, analysis, method, fetchVars, consensusVars, serviceVars>>

AnalyzeMultipleDates ==
    /\ report = <<>>
    /\ request.fn = "analyze_multiple_dates"
    /\ \E fetched \in Fetches(request) :
         Ended(analyze_multiple_dates(request.latitude, request.longitude,
                                       request.dates, fetched),
                fetched)
    /\ UNCHANGED <<request, day_of_year, analysis, method, fetchVars, consensusVars, serviceVars>>

ApiNext ==
    \/ AnalyzeWeatherRange
    \/ AnalyzeWeatherSingle
    \/ AnalyzeMultipleDates

ApiSpec == ApiInit /\ [][ApiNext]_vars

----------------------------------------------------------------------------
(* The Flask endpoints of backend/app.py. A JSON body is a record of the     *)
(* fields sent (<<>> when there is none); a coordinate is sent as a number   *)
(* or as a string that is not a number. A response is its status and the     *)
(* outcomes of the calls made on the core.                                   *)

JsonNumber(n) == [number |-> n]

JsonString(text) == [string |-> text]

\* float(v) of a coordinate: the strings sent are not numeric
float(v) == IF "number" \in DOMAIN v THEN Returns(v.number) ELSE Raised("ValueError")

Respond(status, core) == [status |-> status, core |-> core]

\* if 'error' in result: 500, else 200; except ValueError: 400; except Exception: 500
StatusOf(out) ==
    IF out.raised THEN (IF out.exception = "ValueError" THEN 400 ELSE 500)
    ELSE IF "error" \in DOMAIN out.result THEN 500 ELSE 200

\* The answer after the call on the core, for analyze and analyze_range
Answer(out) == Respond(StatusOf(out), <<out>>)

\* results = analyze_multiple_dates(...): 200, or 500 on any exception
AnswerMultiple(out) == Respond(IF out.raised THEN 500 ELSE 200, <<out>>)

\* The checks of the coordinates, given float() of each; <<>> when they pass
CheckCoordinates(latitude, longitude) ==
    IF latitude.raised \/ longitude.raised THEN <<Respond(400, <<>>)>>
    ELSE IF ~(-90 <= latitude.result /\ latitude.result <= 90) THEN <<Respond(400, <<>>)>>
    ELSE IF ~(-180 <= longitude.result /\ longitude.result <= 180)
         THEN <<Respond(400, <<>>)>>
    ELSE <<>>

analyze(body, fetched) ==
    IF DOMAIN body = {} THEN Respond(400, <<>>)
    ELSE IF ~({"latitude", "longitude", "date"} \subseteq DOMAIN body)
         THEN Respond(400, <<>>)
    ELSE IF CheckCoordinates(float(body.latitude), float(body.longitude)) # <<>>
         THEN Respond(400, <<>>)
    ELSE IF strptime(body.date).raised THEN Respond(400, <<>>)
    ELSE Answer(analyze_weather(float(body.latitude).result, float(body.longitude).result,
                                body.date, FALSE, fetched))

analyze_range(body, fetched) ==
    IF DOMAIN body = {} THEN Respond(400, <<>>)
    ELSE IF ~({"latitude", "longitude", "start_date", "end_date"} \subseteq DOMAIN body)
         THEN Respond(400, <<>>)
    ELSE IF CheckCoordinates(float(body.latitude), float(body.longitude)) # <<>>
         THEN Respond(400, <<>>)
    ELSE IF strptime(body.start_date).raised \/ strptime(body.end_date).raised
         THEN Respond(400, <<>>)
    ELSE Answer(analyze_weather_range(float(body.latitude).result,
                                      float(body.longitude).result,
                                      body.start_date, body.end_date, fetched))

\* Only the presence of the fields and the dates being a non-empty list are
\* checked; every exception is answered 500.
analyze_multiple(body, fetched) ==
    IF DOMAIN body = {} THEN Respond(400, <<>>)
    ELSE IF ~({"latitude", "longitude", "dates"} \subseteq DOMAIN body)
         THEN Respond(400, <<>>)
    ELSE IF float(body.latitude).raised \/ float(body.longitude).raised
         THEN Respond(500, <<>>)
    ELSE IF Len(body.dates) = 0 THEN Respond(400, <<>>)
    ELSE AnswerMultiple(analyze_multiple_dates(float(body.latitude).result,
                                               float(body.longitude).result,
                                               body.dates, fetched))

JsonLatitudes == {JsonNumber(0), JsonNumber(90), JsonNumber(91), JsonNumber(-91), JsonString("north")}

JsonLongitudes == {JsonNumber(0), JsonNumber(181)}

\* The date strings sent: real dates, '2024-3-1', '15-06-2024' and '2023-02-29'
HttpDates ==
    {strftime(MakeDate(2023, 12, 31)), strftime(MakeDate(2024, 1, 1)),
     strftime(MakeDate(2024, 2, 29))} \cup (OddDateStrings \ {<<>>})

\* b without one of its fields
Without(b, field) == [f \in DOMAIN b \ {field} |-> b[f]]

\* Full bodies, bodies with a field missing, and no body
Bodies(full) == {<<>>} \cup full \cup {Without(b, f) : b \in full, f \in {"latitude", "longitude"}}

HttpRequests ==
    {[fn |-> "/api/analyze", body |-> b] :
        b \in Bodies([latitude : JsonLatitudes, longitude : JsonLongitudes, date : HttpDates])}
    \cup
    {[fn |-> "/api/analyze-range", body |-> b] :
        b \in Bodies([latitude : JsonLatitudes, longitude : JsonLongitudes,
                      start_date : HttpDates, end_date : HttpDates])}
    \cup
    {[fn |-> "/api/analyze-multiple", body |-> b] :
        b \in Bodies([latitude : JsonLatitudes, longitude : JsonLongitudes,
                      dates : {<<>>} \cup {<<d>> : d \in HttpDates}])}

\* The dates of a body, as the call on the core takes them
CoreCall(r) ==
    IF r.fn = "/api/analyze" /\ "date" \in DOMAIN r.body
    THEN [fn |-> "analyze_weather", date |-> r.body.date]
    ELSE IF r.fn = "/api/analyze-range" /\ {"start_date", "end_date"} \subseteq DOMAIN r.body
    THEN [fn |-> "analyze_weather_range", start_date |-> r.body.start_date,
          end_date |-> r.body.end_date]
    ELSE IF r.fn = "/api/analyze-multiple" /\ "dates" \in DOMAIN r.body
    THEN [fn |-> "analyze_multiple_dates", dates |-> r.body.dates]
    ELSE [fn |-> "analyze_multiple_dates", dates |-> <<>>]

HttpInit ==
    /\ IdleFetch
    /\ multi_source_data = <<>>
    /\ consensus = <<>>
    /\ data = [columns |-> {}, rows |-> <<>>]
    /\ day_of_year = 1
    /\ analysis = <<>>
    /\ method = <<>>
    /\ request \in HttpRequests
    /\ report = <<>>
    /\ IdleService

\* The frame the core has read, if it was called and got one
Read(answer, fetched) ==
    IF answer.core # <<>> /\ ~fetched.raised THEN fetched.result.data ELSE data

\* The request has been answered
Answered(answer, fetched) ==
    /\ report' = <<answer>>
    /\ data' = Read(answer, fetched)

Analyze ==
    /\ report = <<>>
    /\ request.fn = "/api/analyze"
    /\ \E fetched \in Fetches(CoreCall(request)) :
         Answered(analyze(request.body, fetched), fetched)
    /\ UNCHANGED <<request, day_of_year, analysis, method, fetchVars, consensusVars, serviceVars>>

AnalyzeRange ==
    /\ report = <<>>
    /\ request.fn = "/api/analyze-range"
    /\ LET call == CoreCall(request)
       IN  (/\ call.fn = "analyze_weather_range"
            /\ Parses(call.start_date) /\ Parses(call.end_date))
           => RangeLength(call) <= MaxRangeDays
    /\ \E fetched \in Fetches(CoreCall(request)) :
         Answered(analyze_range(request.body, fetched), fetched)
    /\ UNCHANGED <<request, day_of_year, analysis, method, fetchVars, consensusVars, serviceVars>>

AnalyzeMultiple ==
    /\ report = <<>>
    /\ request.fn = "/api/analyze-multiple"
    /\ \E fetched \in Fetches(CoreCall(request)) :
         Answered(analyze_multiple(request.body, fetched), fetched)
    /\ UNCHANGED <<request, day_of_year, analysis, method, fetchVars, consensusVars, serviceVars>>

HttpNext ==
    \/ Analyze
    \/ AnalyzeRange
    \/ AnalyzeMultiple

HttpSpec == HttpInit /\ [][HttpNext]_vars

----------------------------------------------------------------------------
\* C1: when fetch_multi_source_data has returned, its mapping holds exactly the
\* dispatched sources whose fetch produced non-empty data: a source that raised,
\* returned None or returned an empty frame is absent and hides no sibling.
C1_PartialFailureTolerance ==
    Returned =>
        /\ \A s \in Sources :
              s \in ResultKeys <=> (s \in sources_needed /\ outcome[s] = "data")
        /\ Len(results) = Cardinality(ResultKeys)

C1_Witness ==
    /\ Returned
    /\ \E a, b, c \in Sources :
          /\ outcome[a] = "raised" /\ outcome[b] = "empty" /\ outcome[c] = "data"
          /\ c \in ResultKeys
          /\ results[1] # c

\* C2: when no relevant source produced data, both callers end with an error
\* result that carries neither probabilities nor consensus parameters.
C2_NoSourcesAvailable ==
    (pc = "done" /\ \A s \in Sources : outcome[s] # "data") =>
        /\ response.kind = "error"
        /\ "error" \in response.fields
        /\ response.fields \cap {"probabilities", "statistics", "parameters"} = {}

C2_Witness ==
    /\ pc = "done"
    /\ caller = "get_enhanced_weather_data"
    /\ response.kind = "error"
    /\ \E a, b \in Sources : outcome[a] = "raised" /\ outcome[b] = "empty"
    /\ \A s \in Sources : outcome[s] \in Outcomes \ {"data"}

\* C3: fetch_multi_source_data returns only when every fetch it dispatched has
\* ended and has been processed, and, every fetch ending, it does return.
C3_ReturnsAfterAllFetches ==
    /\ [](Returned =>
            /\ submitted = sources_needed
            /\ \A s \in submitted : outcome[s] \in Outcomes /\ s \in collected)
    /\ <>Returned

C3_Witness ==
    /\ pc = "returned"
    /\ Cardinality(submitted) = 5
    /\ collected = submitted

----------------------------------------------------------------------------
(* What the claims about calculate_consensus speak of, read off the input *)

Called == consensus # <<>>

\* The entries of the input that hold at least one non-missing value.
Contributing(msd) ==
    {i \in 1..Len(msd) : msd[i].column /\ \E j \in 1..Len(msd[i].series) : ~msd[i].series[j].isnan}

\* The arithmetic mean of the non-missing cells of entry i.
CellMean(msd, i) ==
    LET ser == msd[i].series
        RECURSIVE Tot(_)
        Tot(j) == IF j > Len(ser) THEN 0
                  ELSE (IF ser[j].isnan THEN 0 ELSE ser[j].v) + Tot(j + 1)
        cnt == Cardinality({j \in 1..Len(ser) : ~ser[j].isnan})
    IN  Rat(Tot(1), cnt)

\* Sum over a set of indices of f[i], for a function f to rationals.
RatSumOver(S, f) ==
    LET RECURSIVE T(_)
        T(R) == IF R = {} THEN Zero
                ELSE LET i == CHOOSE x \in R : TRUE IN RatAdd(f[i], T(R \ {i}))
    IN  T(S)

SeqSet(seq) == {seq[i] : i \in 1..Len(seq)}

\* C4: confidence is the first match of high (>= 3 sources, agreement > 0.90),
\* medium (>= 2, > 0.75), low (>= 1, > 0.50), very_low (>= 1 source), none (no
\* source), and value is null exactly when confidence is none.
C4_ConfidenceClassification ==
    Called =>
        LET r == consensus[1]
            n == Cardinality(Contributing(multi_source_data))
            a == r.agreement_level
        IN  /\ r.confidence =
                  (IF n = 0 THEN "none"
                   ELSE IF n >= 3 /\ Above(a, 90) THEN "high"
                   ELSE IF n >= 2 /\ Above(a, 75) THEN "medium"
                   ELSE IF Above(a, 50) THEN "low"
                   ELSE "very_low")
            /\ r.value.null <=> r.confidence = "none"

C4_Witness ==
    /\ Called
    /\ Cardinality(Contributing(multi_source_data)) = 3
    /\ consensus[1].confidence = "medium"
    /\ consensus[1].agreement_level.kind = "exp"
    /\ Above(consensus[1].agreement_level, 75)
    /\ ~Above(consensus[1].agreement_level, 90)

\* C5: with exactly one contributing source the confidence is low or very_low,
\* whatever other sources the input holds.
C5_SingleSourceConfidence ==
    (Called /\ Cardinality(Contributing(multi_source_data)) = 1) =>
        consensus[1].confidence \in {"low", "very_low"}

C5_Witness ==
    /\ Called
    /\ Cardinality(Contributing(multi_source_data)) = 1
    /\ Len(multi_source_data) = 3
    /\ \E i \in 1..3 : ~multi_source_data[i].column
    /\ \E i \in 1..3 : multi_source_data[i].column /\ i \notin Contributing(multi_source_data)
    /\ consensus[1].confidence = "very_low"

\* C6: with at least two contributing sources agreement_level is a number in
\* [0,1], and it is 1.0 exactly when all source means are identical.
C6_AgreementOneIffIdentical ==
    (Called /\ Cardinality(Contributing(multi_source_data)) >= 2) =>
        LET a == consensus[1].agreement_level
            C == Contributing(multi_source_data)
            identical == \A i, j \in C : CellMean(multi_source_data, i) = CellMean(multi_source_data, j)
        IN  /\ ~IsNaN(a)
            /\ a.kind = "rat" => (~RatLess(a.q, Zero) /\ ~RatLess(One, a.q))
            /\ a = Num(One) <=> identical

\* C7 as amended: value is the mean of the contributing sources' means weighted
\* by source_weights (nasa_power 1.0, ges_disc 1.0, openmeteo_enhanced 0.9,
\* openmeteo 0.85, cptec 0.8); means 20 and 22 from nasa_power and openmeteo
\* give (20*1.0 + 22*0.85) / (1.0 + 0.85) = 774/37.
C7_Weight(s) ==
    CASE s = "nasa_power" -> Rat(100, 100)
      [] s = "ges_disc" -> Rat(100, 100)
      [] s = "openmeteo_enhanced" -> Rat(90, 100)
      [] s = "openmeteo" -> Rat(85, 100)
      [] s = "cptec" -> Rat(80, 100)

C7_Scenario ==
    /\ Called
    /\ Len(multi_source_data) = 2
    /\ Contributing(multi_source_data) = {1, 2}
    /\ \E i, j \in {1, 2} :
          /\ multi_source_data[i].source = "nasa_power" /\ CellMean(multi_source_data, i) = Rat(20, 1)
          /\ multi_source_data[j].source = "openmeteo" /\ CellMean(multi_source_data, j) = Rat(22, 1)

C7_Reliability(s) ==
    CASE s = "nasa_power" -> Rat(95, 100)
      [] s = "openmeteo" -> Rat(90, 100)
      [] s = "ges_disc" -> Rat(95, 100)
      [] s = "cptec" -> Rat(85, 100)

C8_Sorted(msd) ==
    LET names == <<"cptec", "ges_disc", "nasa_power", "openmeteo", "openmeteo_enhanced">>
        present == SelectSeq(names, LAMBDA n : n \in Keys(msd))
    IN  [k \in 1..Len(present) |->
            msd[CHOOSE i \in 1..Len(msd) : msd[i].source = present[k]]]

\* The largest magnitude among the means of the contributing entries.
C8_LargestMean(msd) ==
    LET C == Contributing(msd)
        Abs(x) == IF RatLess(x, Zero) THEN RatSub(Zero, x) ELSE x
    IN  CHOOSE x \in {Abs(CellMean(msd, i)) : i \in C} :
            \A j \in C : ~RatLess(x, Abs(CellMean(msd, j)))

\* |a - b| <= 2^(3 - Precision) * bound: a and b agree up to the rounding of a
\* few floating-point operations on numbers no larger than bound.
C8_Close(a, b, bound) ==
    LET d == IF RatLess(a, b) THEN RatSub(b, a) ELSE RatSub(a, b)
    IN  ~RatLess(RatMul(Rat(8, 1), bound), RatMul(Rat(SignificandEnd, 1), d))

C9_Median(msd, C) ==
    LET n == Cardinality(C)
        below(x) == Cardinality({i \in C : RatLess(CellMean(msd, i), x)})
        upto(x) == Cardinality({i \in C : ~RatLess(x, CellMean(msd, i))})
        kth(k) == CHOOSE x \in {CellMean(msd, i) : i \in C} : below(x) < k /\ upto(x) >= k
    IN  IF n % 2 = 1 THEN kth((n + 1) \div 2)
        ELSE RatDiv(RatAdd(kth(n \div 2), kth(n \div 2 + 1)), Rat(2, 1))

\* The sources whose mean deviates from the median by more than
\* outlier_threshold = 0.20 of the median.
C9_Outliers(msd, C) ==
    LET med == C9_Median(msd, C)
        Abs(x) == IF RatLess(x, Zero) THEN RatSub(Zero, x) ELSE x
    IN  {msd[i].source : i \in {j \in C :
            RatLess(RatMul(Rat(20, 100), Abs(med)), Abs(RatSub(CellMean(msd, j), med)))}}

\* C9: every source with a non-missing value is in sources_used, and the result
\* marks the sources that deviate from the cross-source median by more than 20%.
C9_OutliersFlaggedNotDropped ==
    (Called /\ Contributing(multi_source_data) # {}) =>
        LET r == consensus[1]
            C == Contributing(multi_source_data)
            flagged == IF "outliers" \in DOMAIN r THEN r.outliers ELSE {}
        IN  /\ SeqSet(r.sources_used) = {multi_source_data[i].source : i \in C}
            /\ flagged = C9_Outliers(multi_source_data, C)

----------------------------------------------------------------------------
\* C10: analyze_day asked for a day that has no row in the historical frame
\* raises nothing and returns a result that carries an 'error' field and the
\* day_of_year asked for, and neither probabilities nor statistics.
C10_EmptyDayIsError ==
    (/\ method = <<"analyze_day">>
     /\ \A i \in 1..Len(data.rows) : data.rows[i].day_of_year # day_of_year) =>
        /\ ~analysis[1].raised
        /\ DOMAIN analysis[1].result = {"error", "day_of_year"}
        /\ analysis[1].result.day_of_year = day_of_year

C10_Witness ==
    /\ method = <<"analyze_day">>
    /\ Len(data.rows) = 2
    /\ {"T2M_MAX", "T2M_MIN", "CLOUD_AMT"} \subseteq data.columns
    /\ day_of_year = 60
    /\ \A i \in 1..Len(data.rows) : data.rows[i].day_of_year = 1
    /\ ~analysis[1].raised
    /\ "error" \in DOMAIN analysis[1].result

----------------------------------------------------------------------------
\* What the claims about the analyzer speak of, read off the input.

\* The rows of the frame for the day asked for.
DayRows == {i \in 1..Len(data.rows) : data.rows[i].day_of_year = day_of_year}

\* A report: a result that is neither an exception nor the error result.
IsReport(out) == ~out.raised /\ "probabilities" \in DOMAIN out.result

\* The condition behind a cloudiness category (config.py 51-56).
C12_Qualifies(category, cloud_amt) ==
    CASE category = "clear" -> cloud_amt < 25
      [] category = "partly_cloudy" -> cloud_amt >= 25 /\ cloud_amt < 50
      [] category = "mostly_cloudy" -> cloud_amt >= 50 /\ cloud_amt < 75
      [] category = "overcast" -> cloud_amt >= 90
      [] OTHER -> FALSE

----------------------------------------------------------------------------
\* C13: for a day whose rows all have the same T2M_MAX, at or above the
\* 'very_hot' floor of 30 (T2M_MAX = 35, T2M_MIN = 20 in every year),
\* analyze_day reports probabilities['very_hot'] = 1.0.
C13_IdenticalHotYearsAreVeryHot ==
    (/\ method = <<"analyze_day">>
     /\ {"T2M_MAX", "T2M_MIN"} \subseteq data.columns
     /\ DayRows # {}
     /\ \A i \in DayRows : data.rows[i].T2M_MAX = 35 /\ data.rows[i].T2M_MIN = 20) =>
        /\ IsReport(analysis[1])
        /\ "very_hot" \in DOMAIN analysis[1].result.probabilities
        /\ analysis[1].result.probabilities.very_hot = One

----------------------------------------------------------------------------
\* The eight headline categories C14 names.
C14_Keys ==
    {"very_cold", "cold", "comfortable", "hot", "very_hot", "very_wet", "very_windy",
     "very_uncomfortable"}

----------------------------------------------------------------------------
\* The report analyze_weather_range has returned: a dict with daily_breakdown

RangeReported ==
    /\ report # <<>>
    /\ request.fn = "analyze_weather_range"
    /\ ~report[1].raised
    /\ "daily_breakdown" \in DOMAIN report[1].result

daily_breakdown == report[1].result.daily_breakdown

\* C11: in the breakdown analyze_weather_range returns, the entry of a day
\* that has no historical observations carries an explicit error field (as
\* the entry analyze_date_range returns for it does).
C11_EmptyDayKeepsErrorMarker ==
    RangeReported =>
        \A i \in 1..Len(daily_breakdown) :
            Len(day_data(data, daily_breakdown[i].day_of_year)) = 0
                => "error" \in DOMAIN daily_breakdown[i]

\* The range call passed validation and get_data returned a frame
RangeFetched ==
    /\ report # <<>>
    /\ request.fn = "analyze_weather_range"
    /\ report[1].calls # <<>>
    /\ report[1].raised \/ "error" \notin DOMAIN report[1].result

\* The breakdown has one entry per calendar date from start to end, ascending
C15_OnePerDate ==
    LET start_dt == strptime(request.start_date).result
        end_dt == strptime(request.end_date).result
        length == (toordinal(end_dt) - toordinal(start_dt)) + 1
    IN  /\ report[1].result.date_range.duration_days = length
        /\ Len(daily_breakdown) = length
        /\ \A i \in 1..Len(daily_breakdown) :
              /\ Parses(daily_breakdown[i].date)
              /\ toordinal(strptime(daily_breakdown[i].date).result)
                     = toordinal(start_dt) + (i - 1)

\* C15: for every valid range with data, analyze_weather_range reports
\* duration_days = (end - start) + 1 and a daily_breakdown of exactly that
\* many entries, one per calendar date from start to end in ascending order.
C15_RangeReportsEveryDate ==
    RangeFetched => (RangeReported /\ C15_OnePerDate)

\* The reports that are returned do have one entry per date.
C15_ReturnedReportsHaveEveryDate ==
    RangeReported => C15_OnePerDate

\* C16 (as stated): for every pair of consecutive entries of the
\* daily_breakdown the later day_of_year is the earlier one plus 1.
C16_DayOfYearPlusOne ==
    RangeReported =>
        \A i \in 1..(Len(daily_breakdown) - 1) :
            daily_breakdown[i + 1].day_of_year = daily_breakdown[i].day_of_year + 1

\* The entry is the one of a 1 January
IsNewYear(entry) == strptime(entry.date).result.month = 1 /\ strptime(entry.date).result.day = 1

\* C16 (amended): for every pair of consecutive entries of the daily_breakdown
\* the later day_of_year is the earlier one plus 1, except that the entry of
\* 1 January has day_of_year 1, after the 365 or 366 of 31 December.
C16_DayOfYearPlusOneOrNewYear ==
    RangeReported =>
        \A i \in 1..(Len(daily_breakdown) - 1) :
            IF IsNewYear(daily_breakdown[i + 1])
            THEN /\ daily_breakdown[i + 1].day_of_year = 1
                 /\ daily_breakdown[i].day_of_year \in {365, 366}
            ELSE daily_breakdown[i + 1].day_of_year = daily_breakdown[i].day_of_year + 1

\* A range across a year end has been reported, with the restart at 1.
C16_Witness ==
    /\ RangeReported
    /\ \E i \in 1..(Len(daily_breakdown) - 1) :
          /\ IsNewYear(daily_breakdown[i + 1])
          /\ daily_breakdown[i].day_of_year = 365
          /\ daily_breakdown[i + 1].day_of_year = 1

\* The entries of the breakdown whose date is best_days[key]
Selected(key) ==
    {i \in 1..Len(daily_breakdown) :
        daily_breakdown[i].date = report[1].result.aggregated.best_days[key]}

\* P(category) of an entry; 0 where the entry has no such probability
C17_P(i, category) ==
    IF category \in DOMAIN daily_breakdown[i].probabilities
    THEN daily_breakdown[i].probabilities[category] ELSE Zero

\* 2 P(very_cold) + 2 P(very_hot) + 3 P(very_wet) + 1.5 P(very_windy)
\* + 2 P(very_uncomfortable), times two to stay in whole weights
C17_TwiceScore(i) ==
    RatSum(<<RatMul(Rat(4, 1), C17_P(i, "very_cold")),
             RatMul(Rat(4, 1), C17_P(i, "very_hot")),
             RatMul(Rat(6, 1), C17_P(i, "very_wet")),
             RatMul(Rat(3, 1), C17_P(i, "very_windy")),
             RatMul(Rat(4, 1), C17_P(i, "very_uncomfortable"))>>)

C17_HasProbabilities(i) == DOMAIN daily_breakdown[i].probabilities # {}

\* C17: best_days['outdoor_activity'] is the date of a day of the range with
\* the least score and best_days['minimal_rain'] of a day with the least
\* P(very_wet), and a day for which no probabilities could be computed is
\* never selected ahead of a day that has them.
C17_BestDaysMinimiseScore ==
    RangeReported =>
        /\ \E i \in Selected("outdoor_activity") :
              /\ \A j \in 1..Len(daily_breakdown) :
                    ~RatLess(C17_TwiceScore(j), C17_TwiceScore(i))
              /\ ~C17_HasProbabilities(i)
                    => \A j \in 1..Len(daily_breakdown) : ~C17_HasProbabilities(j)
        /\ \E i \in Selected("minimal_rain") :
              /\ \A j \in 1..Len(daily_breakdown) :
                    ~RatLess(C17_P(j, "very_wet"), C17_P(i, "very_wet"))
              /\ ~C17_HasProbabilities(i)
                    => \A j \in 1..Len(daily_breakdown) : ~C17_HasProbabilities(j)

\* The least-score part alone
C17_SelectedHasLeastScore ==
    RangeReported =>
        /\ \E i \in Selected("outdoor_activity") :
              \A j \in 1..Len(daily_breakdown) :
                  ~RatLess(C17_TwiceScore(j), C17_TwiceScore(i))
        /\ \E i \in Selected("minimal_rain") :
              \A j \in 1..Len(daily_breakdown) :
                  ~RatLess(C17_P(j, "very_wet"), C17_P(i, "very_wet"))

\* The entries of the breakdown that have temperature statistics
C18_WithTemperature ==
    {i \in 1..Len(daily_breakdown) : "temperature" \in DOMAIN daily_breakdown[i].statistics}

C18_Mean(i) == daily_breakdown[i].statistics.temperature.mean

\* C18: best_days['warmest'] and best_days['coldest'] are the dates of the
\* days whose mean temperature is the greatest and the least over the days of
\* the range that have temperature statistics, also when some day has no data.
C18_WarmestAndColdest ==
    (RangeReported /\ C18_WithTemperature # {}) =>
        /\ \E i \in Selected("warmest") \cap C18_WithTemperature :
              \A j \in C18_WithTemperature : ~RatLess(C18_Mean(i), C18_Mean(j))
        /\ \E i \in Selected("coldest") \cap C18_WithTemperature :
              \A j \in C18_WithTemperature : ~RatLess(C18_Mean(j), C18_Mean(i))

\* The same for the reports in which every day has temperature statistics
C18_WarmestAndColdestOfFullRanges ==
    (RangeReported /\ C18_WithTemperature = 1..Len(daily_breakdown)) =>
        /\ \E i \in Selected("warmest") :
              \A j \in C18_WithTemperature : ~RatLess(C18_Mean(i), C18_Mean(j))
        /\ \E i \in Selected("coldest") :
              \A j \in C18_WithTemperature : ~RatLess(C18_Mean(j), C18_Mean(i))

\* A call of analyze_weather or analyze_weather_range has been made
C19_Called == report # <<>> /\ request.fn \in {"analyze_weather", "analyze_weather_range"}

\* The date strings of the call
C19_Dates ==
    IF request.fn = "analyze_weather" THEN {request.date}
    ELSE {request.start_date, request.end_date}

C19_BadCoordinates ==
    \/ request.latitude < -90 \/ request.latitude > 90
    \/ request.longitude < -180 \/ request.longitude > 180

\* start_date is a later day than end_date
C19_StartAfterEnd ==
    /\ request.fn = "analyze_weather_range"
    /\ Parses(request.start_date) /\ Parses(request.end_date)
    /\ toordinal(strptime(request.start_date).result)
           > toordinal(strptime(request.end_date).result)

\* The call raised ValueError and neither built the data service nor fetched
C19_Rejected ==
    /\ report[1].raised
    /\ report[1].exception = "ValueError"
    /\ report[1].calls = <<>>
    /\ data = [columns |-> {}, rows |-> <<>>]

\* s has the shape YYYY-MM-DD: ten characters, digits around two dashes
C19_IsYYYYMMDD(s) ==
    /\ Len(s) = 10
    /\ \A i \in 1..10 : IF i \in {5, 8} THEN s[i] = "-" ELSE IsDigit(s[i])

\* C19 (as stated): a call with a latitude outside [-90, 90], a longitude
\* outside [-180, 180], a date not in YYYY-MM-DD format or a start_date later
\* than end_date raises ValueError before any data source is touched.
C19_InvalidInputIsRejected ==
    (/\ C19_Called
     /\ \/ C19_BadCoordinates
        \/ \E s \in C19_Dates : ~C19_IsYYYYMMDD(s)
        \/ C19_StartAfterEnd)
    => C19_Rejected

C19_Years == 2023..2024

\* The spellings of real calendar dates that '%Y-%m-%d' parses: four digits
\* of year, month and day with or without the leading zero
C19_Spellings ==
    {Padded(y, 4) \o <<"-">> \o Padded(md[1], w[1]) \o <<"-">> \o Padded(md[2], w[2]) :
        y \in C19_Years,
        md \in {x \in (1..12) \X (1..31) :
                   x[2] <= (IF x[1] = 2 THEN 29 ELSE IF x[1] \in {4, 6, 9, 11} THEN 30 ELSE 31)},
        w \in {1, 2} \X {1, 2}}
    \ {Padded(y, 4) \o <<"-">> \o Padded(2, w[1]) \o <<"-">> \o Padded(29, w[2]) :
        y \in {x \in C19_Years : x % 4 # 0}, w \in {1, 2} \X {1, 2}}

\* C19 (amended): a call with a latitude outside [-90, 90], a longitude
\* outside [-180, 180], a date that is not a real calendar date written as
\* year-month-day with a four-digit year and a month and a day of one or two
\* digits, or a start_date later than end_date raises ValueError before the
\* data service is built or asked for data.
C19_UnparsableInputIsRejected ==
    (/\ C19_Called
     /\ \/ C19_BadCoordinates
        \/ \E s \in C19_Dates : s \notin C19_Spellings
        \/ C19_StartAfterEnd)
    => C19_Rejected

\* A range whose dates are real but in the wrong order has been rejected
C19_Witness ==
    /\ C19_Called
    /\ ~C19_BadCoordinates
    /\ C19_StartAfterEnd
    /\ C19_Rejected

\* The request names both coordinates as numbers and its dates
C20_Complete ==
    /\ report # <<>>
    /\ {"latitude", "longitude"} \subseteq DOMAIN request.body
    /\ "number" \in DOMAIN request.body.latitude
    /\ "number" \in DOMAIN request.body.longitude
    /\ DOMAIN request.body \cap {"date", "start_date", "dates"} # {}

C20_OutOfRange ==
    \/ request.body.latitude.number < -90 \/ request.body.latitude.number > 90
    \/ request.body.longitude.number < -180 \/ request.body.longitude.number > 180

\* The date strings of the request
C20_Dates ==
    IF "date" \in DOMAIN request.body THEN {request.body.date}
    ELSE IF "dates" \in DOMAIN request.body
    THEN {request.body.dates[i] : i \in 1..Len(request.body.dates)}
    ELSE {request.body.start_date, request.body.end_date}

\* C20: every analysis endpoint answers a request with out-of-range
\* coordinates or a malformed date with status 400 before the core is
\* invoked.
C20_InvalidRequestsGet400 ==
    (C20_Complete /\ (C20_OutOfRange \/ \E s \in C20_Dates : s \notin C19_Spellings))
        => (report[1].status = 400 /\ report[1].core = <<>>)

\* The same of /api/analyze and /api/analyze-range alone
C20_SingleAndRangeGet400 ==
    (/\ C20_Complete
     /\ request.fn # "/api/analyze-multiple"
     /\ (C20_OutOfRange \/ \E s \in C20_Dates : s \notin C19_Spellings))
        => (report[1].status = 400 /\ report[1].core = <<>>)

----------------------------------------------------------------------------
(* The data sources and their cache files: data_service.py, data_adapters.py *)
(*                                                                          *)
(* A string is the sequence of its pieces: a word of letters (with the      *)
(* underscores inside a source name) is one piece, every other character is *)
(* a piece of its own, so two strings are equal exactly when their          *)
(* sequences are.  A coordinate is a float that is a whole number of        *)
(* quarter degrees, held as that number: 221 is 55.25.                      *)

\* repr(x) of the float x = quarters / 4, as f"{latitude}" writes it
repr_float(quarters) ==
    LET magnitude == IF quarters < 0 THEN -quarters ELSE quarters
        fraction == CASE magnitude % 4 = 0 -> <<"0">>
                      [] magnitude % 4 = 1 -> <<"2", "5">>
                      [] magnitude % 4 = 2 -> <<"5">>
                      [] OTHER -> <<"7", "5">>
    IN  (IF quarters < 0 THEN <<"-">> ELSE <<>>)
            \o Padded(magnitude \div 4, 1) \o <<".">> \o fraction

\* str(n) of an int n >= 0, as f"{start_year}" writes it
str_int(n) == Padded(n, 1)

\* hashlib.md5(text.encode()).hexdigest(): the digest stands for the text it
\* was made of (two texts with one digest are not modelled)
md5_hexdigest(text) == text

\* NASAPowerAPI._get_cache_key
NASAPowerAPI_get_cache_key(latitude, longitude, start_year, end_year) ==
    md5_hexdigest(repr_float(latitude) \o <<"_">> \o repr_float(longitude) \o <<"_">>
                    \o str_int(start_year) \o <<"_">> \o str_int(end_year))

\* cache_key of OpenMeteoAPI.get_historical_data
OpenMeteoAPI_cache_key(latitude, longitude, start_year, end_year) ==
    md5_hexdigest(<<"openmeteo", "_">>
                    \o repr_float(latitude) \o <<"_">> \o repr_float(longitude) \o <<"_">>
                    \o str_int(start_year) \o <<"_">> \o str_int(end_year))

\* json.dumps of a str
json_str(text) == <<"\"">> \o text \o <<"\"">>

\* json.dumps of a list of str: the items in the order of the list
RECURSIVE json_list_from(_, _)
json_list_from(items, i) ==
    IF i > Len(items) THEN <<>>
    ELSE (IF i > 1 THEN <<",", " ">> ELSE <<>>)
            \o json_str(<<items[i]>>) \o json_list_from(items, i + 1)

json_list(items) == <<"[">> \o json_list_from(items, 1) \o <<"]">>

\* sorted() of the keyword names _get_cache_key is called with
sorted_keys == <<"end", "lat", "lon", "params", "start">>

\* json.dumps(kwargs, sort_keys=True), kwargs holding each value as json.dumps
\* writes it: sort_keys orders the names of the dict, not the items of a list
RECURSIVE json_dict_from(_, _)
json_dict_from(kwargs, i) ==
    IF i > Len(sorted_keys) THEN <<>>
    ELSE (IF i > 1 THEN <<",", " ">> ELSE <<>>)
            \o json_str(<<sorted_keys[i]>>) \o <<":", " ">> \o kwargs[sorted_keys[i]]
            \o json_dict_from(kwargs, i + 1)

json_dumps(kwargs) == <<"{">> \o json_dict_from(kwargs, 1) \o <<"}">>

\* BaseDataAdapter._get_cache_key as GESDISCAdapter, CPTECAdapter and
\* OpenMeteoEnhancedAdapter call it
BaseDataAdapter_get_cache_key(source_name, latitude, longitude, start_date, end_date, params) ==
    md5_hexdigest(<<source_name, "_">>
                    \o json_dumps([lat |-> repr_float(latitude),
                                   lon |-> repr_float(longitude),
                                   start |-> json_str(start_date),
                                   end |-> json_str(end_date),
                                   params |-> json_list(params)]))

\* A DataFrame a source returns: who made its values, and how many rows
Frame(producer, rows) == [producer |-> producer, rows |-> rows]

\* What a call on a source did: its outcome, the cache directory it leaves and
\* the providers it sent a request to, in order
Done(out, files, requests) == [out |-> out, files |-> files, requests |-> requests]

\* A cache file written `age` days ago
File(df, age, readable) == [df |-> df, age |-> age, readable |-> readable]

\* _save_to_cache / df.to_parquet(cache_file)
to_parquet(files, cache_key, df) ==
    [k \in DOMAIN files \cup {cache_key} |->
        IF k = cache_key THEN File(df, 0, TRUE) ELSE files[k]]

\* `if file_age.days < 30` of NASAPowerAPI._get_from_cache
cache_days == 30

\* NASAPowerAPI._get_from_cache: the cached frame, or None
NASAPowerAPI_get_from_cache(files, cache_key) ==
    IF cache_key \in DOMAIN files
       /\ files[cache_key].age < cache_days
       /\ files[cache_key].readable
    THEN files[cache_key].df
    ELSE None

\* BaseDataAdapter._get_from_cache, and the cache check at the head of
\* OpenMeteoAPI.get_historical_data: the cached frame whatever its age, or None
BaseDataAdapter_get_from_cache(files, cache_key) ==
    IF cache_key \in DOMAIN files /\ files[cache_key].readable
    THEN files[cache_key].df
    ELSE None

\* The request of a source to its provider, after the cache gave nothing:
\* the provider's frame (of rows[provider] rows) is saved and returned, or the
\* request fails
Request(files, up, provider, cache_key, rows) ==
    IF provider \in up
    THEN Done(Returns(Frame(provider, rows[provider])),
              to_parquet(files, cache_key, Frame(provider, rows[provider])), <<provider>>)
    ELSE Done(Raised("Exception"), files, <<provider>>)

\* A source that looked into the cache first
CacheFirst(cached, files, up, provider, cache_key, rows) ==
    IF cached # None THEN Done(Returns(cached), files, <<>>)
    ELSE Request(files, up, provider, cache_key, rows)

\* NASAPowerAPI.get_historical_data
NASAPowerAPI_get_historical_data(files, up, latitude, longitude, start_year, end_year, rows) ==
    CacheFirst(NASAPowerAPI_get_from_cache(files,
                   NASAPowerAPI_get_cache_key(latitude, longitude, start_year, end_year)),
               files, up, "nasa",
               NASAPowerAPI_get_cache_key(latitude, longitude, start_year, end_year), rows)

\* OpenMeteoAPI.get_historical_data
OpenMeteoAPI_get_historical_data(files, up, latitude, longitude, start_year, end_year, rows) ==
    CacheFirst(BaseDataAdapter_get_from_cache(files,
                   OpenMeteoAPI_cache_key(latitude, longitude, start_year, end_year)),
               files, up, "openmeteo",
               OpenMeteoAPI_cache_key(latitude, longitude, start_year, end_year), rows)

\* lat_low, lon_low of interpolate_point: (x // 0.5) * 0.5, in quarter degrees
grid_low(quarters) == (quarters \div 2) * 2

\* corners of interpolate_point, in quarter degrees (grid_size is two quarters)
corners(latitude, longitude) ==
    <<<<grid_low(latitude), grid_low(longitude)>>,
      <<grid_low(latitude), grid_low(longitude) + 2>>,
      <<grid_low(latitude) + 2, grid_low(longitude)>>,
      <<grid_low(latitude) + 2, grid_low(longitude) + 2>>>>

\* One iteration of `for i, (lat, lon) in enumerate(corners)`: `sofar` holds
\* corner_data, the files and the requests up to here
CornerStep(sofar, got) ==
    [corner_data |-> IF got.out.raised THEN sofar.corner_data
                     ELSE Append(sofar.corner_data, got.out.result),
     files |-> got.files,
     requests |-> sofar.requests \o got.requests]

RECURSIVE CornerLoop(_, _, _, _, _, _, _)
CornerLoop(sofar, up, points, i, start_year, end_year, rows) ==
    IF i > Len(points) THEN sofar
    ELSE CornerLoop(CornerStep(sofar,
                        NASAPowerAPI_get_historical_data(sofar.files, up, points[i][1],
                            points[i][2], start_year, end_year, rows)),
                    up, points, i + 1, start_year, end_year, rows)

\* The end of interpolate_point: the first frame of corner_data with its
\* numeric columns replaced by the weighted sums
Interpolated(looped) ==
    IF looped.corner_data = <<>>
    THEN Done(Raised("Exception"), looped.files, looped.requests)
    ELSE Done(Returns(looped.corner_data[1]), looped.files, looped.requests)

\* NASAPowerAPI.interpolate_point
interpolate_point(files, up, latitude, longitude, start_year, end_year, rows) ==
    Interpolated(CornerLoop([corner_data |-> <<>>, files |-> files, requests |-> <<>>],
                            up, corners(latitude, longitude), 1, start_year, end_year, rows))

\* MockWeatherDataSource.get_historical_data: data_service.py imports the class
\* from mock_data.py, which does not hold it; it returns generated data
MockWeatherDataSource_get_historical_data(files, rows) ==
    Done(Returns(Frame("mock", rows["mock"])), files, <<>>)

\* The source labels of get_data, as their words ("interpolyatsiya" and
\* "dlya testirovaniya" stand for the Russian words of the source)
label_nasa_interpolated == <<"NASA", "POWER", "API", "(interpolyatsiya)">>

label_nasa == <<"NASA", "POWER", "API">>

label_openmeteo == <<"Open-Meteo", "API">>

label_mock == <<"Mock", "Data", "(dlya testirovaniya)">>

\* `word in source`
Contains(source, word) == \E i \in 1..Len(source) : source[i] = word

\* `return data, label`, after the sources of `tried` were called in that order
Labelled(done, label, tried) ==
    [out |-> Returns([data |-> done.out.result, source |-> label]),
     files |-> done.files, requests |-> done.requests, tried |-> tried]

\* The NASA call of get_data and its label
FromNasa(files, up, latitude, longitude, start_year, end_year, use_interpolation, rows) ==
    IF use_interpolation
    THEN interpolate_point(files, up, latitude, longitude, start_year, end_year, rows)
    ELSE NASAPowerAPI_get_historical_data(files, up, latitude, longitude,
                                          start_year, end_year, rows)

NasaLabel(use_interpolation) ==
    IF use_interpolation THEN label_nasa_interpolated ELSE label_nasa

\* The requests of an earlier source come before those of a later one
After(earlier, done) == Done(done.out, done.files, earlier.requests \o done.requests)

\* The innermost except branch: both network sources raised
ThenMock(second, order, rows) ==
    Labelled(After(second, MockWeatherDataSource_get_historical_data(second.files, rows)),
             label_mock, order \o <<"mock">>)

\* get_data with the label of the preferred source on whatever is returned
LabelledAsPreferred(first, second, use_interpolation, rows) ==
    IF ~first.out.raised THEN Labelled(first, NasaLabel(use_interpolation), <<"nasa">>)
    ELSE IF ~second.out.raised
         THEN Labelled(After(first, second), NasaLabel(use_interpolation),
                       <<"nasa", "openmeteo">>)
         ELSE ThenMock(After(first, second), <<"nasa", "openmeteo">>, rows)

\* get_data, preferred_source == 'nasa'
NasaThenOpenMeteo(first, second, use_interpolation, rows) ==
    IF ~first.out.raised THEN Labelled(first, NasaLabel(use_interpolation), <<"nasa">>)
    ELSE IF ~second.out.raised
         THEN Labelled(After(first, second), label_openmeteo, <<"nasa", "openmeteo">>)
         ELSE ThenMock(After(first, second), <<"nasa", "openmeteo">>, rows)

\* get_data, any other preferred_source
OpenMeteoThenNasa(first, second, use_interpolation, rows) ==
    IF ~first.out.raised THEN Labelled(first, label_openmeteo, <<"openmeteo">>)
    ELSE IF ~second.out.raised
         THEN Labelled(After(first, second), NasaLabel(use_interpolation),
                       <<"openmeteo", "nasa">>)
         ELSE ThenMock(After(first, second), <<"openmeteo", "nasa">>, rows)

\* The second source is called on the cache directory the first one left
NasaFirst(first, up, latitude, longitude, start_year, end_year, use_interpolation, rows) ==
    NasaThenOpenMeteo(first,
        OpenMeteoAPI_get_historical_data(first.files, up, latitude, longitude,
                                         start_year, end_year, rows),
        use_interpolation, rows)

OpenMeteoFirst(first, up, latitude, longitude, start_year, end_year, use_interpolation, rows) ==
    OpenMeteoThenNasa(first,
        FromNasa(first.files, up, latitude, longitude, start_year, end_year,
                 use_interpolation, rows),
        use_interpolation, rows)

\* WeatherDataService.get_data
get_data(files, up, preferred_source, use_mock, latitude, longitude, start_year, end_year, use_interpolation, rows) ==
    IF use_mock \/ preferred_source = "mock"
    THEN Labelled(MockWeatherDataSource_get_historical_data(files, rows),
                  label_mock, <<"mock">>)
    ELSE IF preferred_source = "nasa"
    THEN NasaFirst(FromNasa(files, up, latitude, longitude, start_year, end_year,
                            use_interpolation, rows),
                   up, latitude, longitude, start_year, end_year, use_interpolation, rows)
    ELSE OpenMeteoFirst(OpenMeteoAPI_get_historical_data(files, up, latitude, longitude,
                                                         start_year, end_year, rows),
                        up, latitude, longitude, start_year, end_year,
                        use_interpolation, rows)

\* The data an adapter generates itself is saved and returned
Generated(files, cache_key, df) ==
    Done(Returns(df), to_parquet(files, cache_key, df), <<>>)

\* An adapter that looked into the cache first: `fresh` is what it does when
\* the cache gave nothing
Adapter(cached, files, fresh) ==
    IF cached # None THEN Done(Returns(cached), files, <<>>) ELSE fresh

\* GESDISCAdapter.fetch_data: generated air quality data, of rows["ges_disc"] rows
GESDISCAdapter_fetch_data(files, cache_key, rows) ==
    Adapter(BaseDataAdapter_get_from_cache(files, cache_key), files,
            Generated(files, cache_key, Frame("ges_disc", rows["ges_disc"])))

\* is_south_america of CPTECAdapter.fetch_data, in quarter degrees
is_south_america(latitude, longitude) ==
    (-240 < latitude /\ latitude < 60) /\ (-340 < longitude /\ longitude < -120)

\* CPTECAdapter.fetch_data
CPTECAdapter_fetch_data(files, cache_key, latitude, longitude, rows) ==
    Adapter(BaseDataAdapter_get_from_cache(files, cache_key), files,
            IF ~is_south_america(latitude, longitude)
            THEN Done(Returns(None), files, <<>>)
            ELSE Generated(files, cache_key, Frame("cptec", rows["cptec"])))

\* The request of OpenMeteoEnhancedAdapter.fetch_data: both except branches
\* return None
EnhancedRequest(requested) ==
    IF requested.out.raised THEN Done(Returns(None), requested.files, requested.requests)
    ELSE requested

\* OpenMeteoEnhancedAdapter.fetch_data: it asks the provider of OpenMeteoAPI
OpenMeteoEnhancedAdapter_fetch_data(files, up, cache_key, rows) ==
    Adapter(BaseDataAdapter_get_from_cache(files, cache_key), files,
            EnhancedRequest(Request(files, up, "openmeteo", cache_key, rows)))

\* start_date.split('-')[0]
RECURSIVE split_first(_, _)
split_first(text, i) ==
    IF i > Len(text) \/ text[i] = "-" THEN SubSeq(text, 1, i - 1)
    ELSE split_first(text, i + 1)

\* int(text) of a str
int_of(text) ==
    IF text # <<>> /\ AllDigits(text) THEN Returns(Decimal(text))
    ELSE Raised("ValueError")

\* The `except Exception` of _fetch_from_source: None
Caught(done) ==
    IF done.out.raised THEN Done(Returns(None), done.files, done.requests) ELSE done

\* `return data` of the nasa_power branch: the label is dropped
DataOf(got) ==
    IF got.out.raised THEN Done(got.out, got.files, got.requests)
    ELSE Done(Returns(got.out.result.data), got.files, got.requests)

\* The branches of _fetch_from_source that turn the dates into years
ByYears(files, up, source_name, latitude, longitude, start_year, end_year, rows) ==
    IF start_year.raised \/ end_year.raised THEN Done(Raised("ValueError"), files, <<>>)
    ELSE IF source_name = "nasa_power"
    THEN DataOf(get_data(files, up, "nasa", FALSE, latitude, longitude,
                         start_year.result, end_year.result, TRUE, rows))
    ELSE OpenMeteoAPI_get_historical_data(files, up, latitude, longitude,
                                          start_year.result, end_year.result, rows)

\* The adapters behind source.fetch_data
ByAdapter(files, up, source_name, latitude, longitude, cache_key, rows) ==
    CASE source_name = "ges_disc" -> GESDISCAdapter_fetch_data(files, cache_key, rows)
      [] source_name = "cptec" ->
            CPTECAdapter_fetch_data(files, cache_key, latitude, longitude, rows)
      [] OTHER -> OpenMeteoEnhancedAdapter_fetch_data(files, up, cache_key, rows)

\* MultiSourceDataService._fetch_from_source
_fetch_from_source(files, up, source_name, latitude, longitude, start_date, end_date, params, rows) ==
    Caught(IF source_name \in {"nasa_power", "openmeteo"}
           THEN ByYears(files, up, source_name, latitude, longitude,
                        int_of(split_first(start_date, 1)),
                        int_of(split_first(end_date, 1)), rows)
           ELSE ByAdapter(files, up, source_name, latitude, longitude,
                          BaseDataAdapter_get_cache_key(source_name, latitude, longitude,
                                                        start_date, end_date, params),
                          rows))

\* What the collecting loop of fetch_multi_source_data does with a future's
\* result: the frame is stored in `results`, or a line says that no data came
\* (the except branch is for a future that raised, and none does)
Stored(df) == df # None /\ df.rows > 0

CollectedAs(df) == IF Stored(df) THEN "stored" ELSE "no data"

----------------------------------------------------------------------------
(* ServiceSpec: one WeatherDataService, SourcesSpec: the five sources of    *)
(* MultiSourceDataService; each over one cache directory, called again and  *)
(* again with the same arguments while the providers come and go and days   *)
(* pass                                                                     *)

MaxCalls == 2

MaxAge == 30

Providers == {"nasa", "openmeteo"}

\* Moscow, and a place CPTEC covers: (55.75, 37.5) and (-10.0, -50.0)
Places == {<<223, 150>>, <<-40, -200>>}

\* The years and dates of the calls
first_year == 2022

last_year == 2023

call_start_date == strftime(MakeDate(first_year, 6, 15))

call_end_date == strftime(MakeDate(last_year, 6, 15))

\* The services: WeatherDataService() of each preferred_source, and one with
\* use_mock=True
Settings ==
    {[preferred_source |-> p[1], use_mock |-> p[2], use_interpolation |-> i, place |-> at] :
        p \in {<<"nasa", FALSE>>, <<"openmeteo", FALSE>>, <<"mock", FALSE>>, <<"nasa", TRUE>>},
        i \in BOOLEAN, at \in Places}

\* The rows the providers and the generators answer the calls with: NASA's
\* frame is empty when every value is the fill value -999
Answers(nasa_rows, openmeteo_rows) ==
    {[nasa |-> n, openmeteo |-> o, mock |-> 1, ges_disc |-> 1, cptec |-> 1] :
        n \in nasa_rows, o \in openmeteo_rows}

\* The providers: which of them answer at the moment, and with what
World(answers) == [up : {Providers}, rows : answers]

\* source_params of fetch_multi_source_data when analyze_weather calls it:
\* the parameters of the source, in the order of the `parameters` list
params_of(source_name) ==
    CASE source_name = "nasa_power" -> <<"temperature", "precipitation", "wind_speed", "humidity">>
      [] source_name = "openmeteo" -> <<"temperature", "precipitation", "wind_speed", "humidity">>
      [] source_name = "openmeteo_enhanced" ->
            <<"temperature", "apparent_temperature", "weathercode", "windgusts">>
      [] source_name = "ges_disc" -> <<"air_quality", "black_carbon", "dust">>
      [] OTHER -> <<"thunderstorm_risk">>

\* An unreadable file left in the cache directory under the key of a source
Leftovers(place) ==
    {<<>>} \cup
    {[k \in {key} |-> File(Frame("nasa", 1), 0, FALSE)] :
        key \in {NASAPowerAPI_get_cache_key(place[1], place[2], first_year, last_year),
                 OpenMeteoAPI_cache_key(place[1], place[2], first_year, last_year)}}

IdleCore ==
    /\ IdleFetch
    /\ multi_source_data = <<>>
    /\ consensus = <<>>
    /\ data = [columns |-> {}, rows |-> <<>>]
    /\ day_of_year = 1
    /\ analysis = <<>>
    /\ method = <<>>
    /\ request = <<>>
    /\ report = <<>>

ServiceInit ==
    /\ IdleCore
    /\ settings \in Settings
    /\ network \in World(Answers({0, 1, 2}, {1, 2}))
    /\ cache_dir \in Leftovers(settings.place)
    /\ history = <<>>

\* self.sources['nasa_power'] of MultiSourceDataService.__init__, which
\* _fetch_from_source calls with use_interpolation=True
SourcesInit ==
    /\ IdleCore
    /\ settings \in {s \in Settings : /\ s.preferred_source = "nasa"
                                      /\ ~s.use_mock /\ s.use_interpolation}
    /\ network \in World(Answers({0, 1}, {1}))
    /\ cache_dir = <<>>
    /\ history = <<>>

\* The cache files a call wrote: the new ones and the changed ones
Wrote(before, after) ==
    {k \in DOMAIN after : k \notin DOMAIN before \/ after[k] # before[k]}

\* A call has ended: it is written down with the providers that answered, the
\* cache directory it found and the files it wrote
Logged(call, did) ==
    /\ history' = Append(history, call @@ [up |-> network.up, before |-> cache_dir,
                                            wrote |-> Wrote(cache_dir, did.files),
                                            out |-> did.out, requests |-> did.requests,
                                            tried |-> IF "tried" \in DOMAIN did
                                                      THEN did.tried ELSE <<>>])
    /\ cache_dir' = did.files

\* service.get_data(latitude, longitude, first_year, last_year, use_interpolation)
GetData ==
    /\ Len(history) < MaxCalls
    /\ Logged([fn |-> "get_data"],
              get_data(cache_dir, network.up, settings.preferred_source, settings.use_mock,
                       settings.place[1], settings.place[2], first_year, last_year,
                       settings.use_interpolation, network.rows))
    /\ UNCHANGED <<settings, network, fetchVars, consensusVars, analyzerVars, apiVars>>

\* One task of fetch_multi_source_data: _fetch_from_source for one source
FetchFromSource(source_name) ==
    /\ Len(history) < MaxCalls
    /\ Logged([fn |-> "_fetch_from_source", source_name |-> source_name],
              _fetch_from_source(cache_dir, network.up, source_name,
                                 settings.place[1], settings.place[2],
                                 call_start_date, call_end_date,
                                 params_of(source_name), network.rows))
    /\ UNCHANGED <<settings, network, fetchVars, consensusVars, analyzerVars, apiVars>>

\* A provider goes down or comes back
NetworkChanges ==
    /\ Len(history) < MaxCalls
    /\ \E provider \in Providers :
         network' = [network EXCEPT !.up = IF provider \in @ THEN @ \ {provider}
                                          ELSE @ \cup {provider}]
    /\ UNCHANGED <<settings, cache_dir, history, fetchVars, consensusVars, analyzerVars, apiVars>>

\* Time passes: every cache file gets older
DaysPass(days) ==
    /\ Len(history) < MaxCalls
    /\ cache_dir # <<>>
    /\ \A k \in DOMAIN cache_dir : cache_dir[k].age + days <= MaxAge
    /\ cache_dir' = [k \in DOMAIN cache_dir |->
                        File(cache_dir[k].df, cache_dir[k].age + days, cache_dir[k].readable)]
    /\ UNCHANGED <<settings, network, history, fetchVars, consensusVars, analyzerVars, apiVars>>

ServiceNext ==
    \/ GetData
    \/ NetworkChanges
    \/ \E days \in {cache_days - 1, cache_days} : DaysPass(days)

ServiceSpec == ServiceInit /\ [][ServiceNext]_vars

SourcesNext ==
    \/ \E s \in Sources : FetchFromSource(s)
    \/ NetworkChanges
    \/ \E days \in {cache_days - 1, cache_days} : DaysPass(days)

SourcesSpec == SourcesInit /\ [][SourcesNext]_vars

----------------------------------------------------------------------------
(* KeySpec: the cache keys of two requests, each to one of the five caches  *)

\* Requests to NASAPowerAPI and OpenMeteoAPI (years) and to the three adapters
\* (dates and a parameter list)
KeyRequests ==
    {[source |-> s, latitude |-> at[1], longitude |-> at[2],
      start |-> str_int(y), end |-> str_int(last_year), params |-> <<>>] :
        s \in {"nasa_power", "openmeteo"}, at \in Places, y \in {first_year, last_year}}
    \cup
    {[source |-> s, latitude |-> at[1], longitude |-> at[2],
      start |-> strftime(MakeDate(y, 6, 15)), end |-> call_end_date, params |-> p] :
        s \in {"openmeteo_enhanced", "ges_disc", "cptec"}, at \in Places,
        y \in {first_year, last_year},
        p \in {<<"temperature">>, <<"temperature", "humidity">>,
               <<"humidity", "temperature">>}}

\* The cache key the source of a request makes
cache_key_of(r) ==
    CASE r.source = "nasa_power" ->
            NASAPowerAPI_get_cache_key(r.latitude, r.longitude,
                                       Decimal(r.start), Decimal(r.end))
      [] r.source = "openmeteo" ->
            OpenMeteoAPI_cache_key(r.latitude, r.longitude, Decimal(r.start), Decimal(r.end))
      [] OTHER ->
            BaseDataAdapter_get_cache_key(r.source, r.latitude, r.longitude,
                                          r.start, r.end, r.params)

KeyInit ==
    /\ IdleFetch
    /\ multi_source_data = <<>>
    /\ consensus = <<>>
    /\ data = [columns |-> {}, rows |-> <<>>]
    /\ day_of_year = 1
    /\ analysis = <<>>
    /\ method = <<>>
    /\ request \in KeyRequests \X KeyRequests
    /\ report = <<>>
    /\ IdleService

\* Both sources make their keys
MakeKeys ==
    /\ report = <<>>
    /\ report' = <<cache_key_of(request[1]), cache_key_of(request[2])>>
    /\ UNCHANGED <<request, data, day_of_year, analysis, method, fetchVars, consensusVars,
                   serviceVars>>

KeyNext == MakeKeys

KeySpec == KeyInit /\ [][KeyNext]_vars

----------------------------------------------------------------------------
(* convert_result_units (utils.py) and the `units` argument of              *)
(* analyze_weather.  The dicts of a report are objects on a heap: a         *)
(* sequence of dicts, where a value that is a dict is held as the address   *)
(* of that dict, so that two dicts can hold the same dict.                  *)

Ref(address) == [ref |-> address]

\* The addresses of the entries of result['statistics']
StatAddress(name) ==
    CASE name = "temperature" -> 3
      [] name = "humidity" -> 4
      [] OTHER -> 5

\* The heap after `result = {...}` of analyze_weather: the result dict at 1,
\* its statistics dict at 2 and each entry of the statistics at its address
StoreReport(result) ==
    <<[result EXCEPT !.statistics = Ref(2)],
      [name \in DOMAIN result.statistics |-> Ref(StatAddress(name))],
      Get(result.statistics, "temperature", <<>>),
      Get(result.statistics, "humidity", <<>>),
      Get(result.statistics, "cloudiness", <<>>)>>

\* The report at an address, as the caller reads it
LoadReport(heap, address) ==
    [heap[address] EXCEPT !.statistics =
        [name \in DOMAIN heap[@.ref] |-> heap[heap[@.ref][name].ref]]]

\* dict.copy(): a new dict with the same values, the same addresses among them
dict_copy(heap, address) == Append(heap, heap[address])

\* d[key] = value
setitem(heap, address, key, value) ==
    [heap EXCEPT ![address] = [k \in DOMAIN @ \cup {key} |-> IF k = key THEN value ELSE @[k]]]

\* celsius_to_fahrenheit, ms_to_kmh, ms_to_mph, mm_to_inches, kpa_to_mmhg,
\* kpa_to_inhg, on exact values
ConvertValue(kind, v) ==
    CASE kind = "fahrenheit" -> RatAdd(RatDiv(RatMul(v, Rat(9, 1)), Rat(5, 1)), Rat(32, 1))
      [] kind = "kmh" -> RatMul(v, Rat(36, 10))
      [] kind = "mph" -> RatMul(v, Rat(223694, 100000))
      [] kind = "inches" -> RatDiv(v, Rat(254, 10))
      [] kind = "mmhg" -> RatMul(v, Rat(750062, 100000))
      [] OTHER -> RatMul(v, Rat(2953, 10000))

\* `for key in [...]: if key in d and d[key] is not None: d[key] = f(d[key])`
RECURSIVE ConvertKeys(_, _, _, _, _)
ConvertKeys(heap, address, keys, i, kind) ==
    IF i > Len(keys) THEN heap
    ELSE ConvertKeys(IF keys[i] \in DOMAIN heap[address] /\ heap[address][keys[i]] # None
                     THEN setitem(heap, address, keys[i],
                                  ConvertValue(kind, heap[address][keys[i]]))
                     ELSE heap,
                     address, keys, i + 1, kind)

\* `if name in stats:` convert the keys of stats[name] and set its unit, if
\* the block sets one (<<>> when it does not; "F" stands for the degree sign
\* and F)
ConvertEntry(heap, stats, name, keys, kind, unit) ==
    IF name \notin DOMAIN heap[stats] THEN heap
    ELSE IF unit = <<>> THEN ConvertKeys(heap, heap[stats][name].ref, keys, 1, kind)
    ELSE setitem(ConvertKeys(heap, heap[stats][name].ref, keys, 1, kind),
                 heap[stats][name].ref, "unit", unit[1])

\* units.get(key) == value
UnitIs(units, key, values) == key \in DOMAIN units /\ units[key] \in values

\* The four blocks of convert_result_units, on the copy at `address`
ConvertTemperature(heap, address, units) ==
    IF UnitIs(units, "temperature", {"fahrenheit"}) /\ "statistics" \in DOMAIN heap[address]
    THEN ConvertEntry(
             ConvertEntry(heap, heap[address].statistics.ref, "temperature",
                          <<"mean", "min", "max", "percentile_10", "percentile_90">>,
                          "fahrenheit", <<"F">>),
             heap[address].statistics.ref, "dew_point", <<"mean", "min", "max">>,
             "fahrenheit", <<>>)
    ELSE heap

ConvertWind(heap, address, units) ==
    IF UnitIs(units, "wind_speed", {"kmh", "mph"}) /\ "statistics" \in DOMAIN heap[address]
    THEN ConvertEntry(
             ConvertEntry(heap, heap[address].statistics.ref, "wind",
                          <<"mean", "max", "percentile_90">>,
                          units.wind_speed, <<units.wind_speed>>),
             heap[address].statistics.ref, "wind_10m", <<"mean", "max", "percentile_90">>,
             units.wind_speed, <<units.wind_speed>>)
    ELSE heap

ConvertPrecipitation(heap, address, units) ==
    IF UnitIs(units, "precipitation", {"inches"}) /\ "statistics" \in DOMAIN heap[address]
    THEN ConvertEntry(heap, heap[address].statistics.ref, "precipitation",
                      <<"mean", "max", "total", "percentile_90">>, "inches", <<"inches">>)
    ELSE heap

ConvertPressure(heap, address, units) ==
    IF UnitIs(units, "pressure", {"mmhg", "inhg"}) /\ "statistics" \in DOMAIN heap[address]
    THEN ConvertEntry(heap, heap[address].statistics.ref, "pressure",
                      <<"mean", "min", "max">>, units.pressure, <<units.pressure>>)
    ELSE heap

\* `if not units`: None or an empty dict
NoUnits(units) == DOMAIN units = {} \/ "none" \in DOMAIN units

\* convert_result_units(result, units), result being the dict at `address`:
\* the heap it leaves and the address of the dict it returns
convert_result_units(heap, address, units) ==
    IF NoUnits(units) THEN [heap |-> heap, returned |-> address]
    ELSE [heap |-> ConvertPressure(
                       ConvertPrecipitation(
                           ConvertWind(
                               ConvertTemperature(dict_copy(heap, address),
                                                  Len(heap) + 1, units),
                               Len(heap) + 1, units),
                           Len(heap) + 1, units),
                       Len(heap) + 1, units),
          returned |-> Len(heap) + 1]

\* Lines 207-211 of analyze_weather: `out` is what the function has done up to
\* the result dict; the error dicts are returned before these lines
Converted(out, units, done) ==
    [out |-> [out EXCEPT !.result = LoadReport(done.heap, done.returned)],
     built |-> out.result,
     passed |-> LoadReport(done.heap, 1),
     converted |-> TRUE]

WithUnits(out, units) ==
    IF out.raised \/ "error" \in DOMAIN out.result \/ NoUnits(units)
    THEN [out |-> out, converted |-> FALSE]
    ELSE Converted(out, units, convert_result_units(StoreReport(out.result), 1, units))

----------------------------------------------------------------------------
(* UnitsSpec: analyze_weather called with a `units` argument                *)

UnitChoices ==
    {None, <<>>, [temperature |-> "fahrenheit"], [temperature |-> "celsius"],
     [wind_speed |-> "mph"], [temperature |-> "fahrenheit", precipitation |-> "inches"]}

UnitRequests ==
    {[fn |-> "analyze_weather", latitude |-> 0, longitude |-> 0, date |-> d,
      detailed |-> b, units |-> u] :
        d \in {strftime(MakeDate(2024, 1, 1)), strftime(MakeDate(2024, 3, 1)), <<>>},
        b \in BOOLEAN, u \in UnitChoices}

UnitsInit ==
    /\ IdleFetch
    /\ multi_source_data = <<>>
    /\ consensus = <<>>
    /\ data = [columns |-> {}, rows |-> <<>>]
    /\ day_of_year = 1
    /\ analysis = <<>>
    /\ method = <<>>
    /\ request \in UnitRequests
    /\ report = <<>>
    /\ IdleService

\* analyze_weather(latitude, longitude, date, detailed=..., units=...)
AnalyzeWeatherUnits ==
    /\ report = <<>>
    /\ \E fetched \in Fetches(request) :
         /\ report' = <<WithUnits(analyze_weather(request.latitude, request.longitude,
                                                  request.date, request.detailed, fetched),
                                  request.units)>>
         /\ data' = IF fetched.raised THEN data ELSE fetched.result.data
    /\ UNCHANGED <<request, day_of_year, analysis, method, fetchVars, consensusVars, serviceVars>>

UnitsNext == AnalyzeWeatherUnits

UnitsSpec == UnitsInit /\ [][UnitsNext]_vars

----------------------------------------------------------------------------
(* StatisticalAnalyzer(config): the temperature analysis of an analyzer      *)
(* built with thresholds of the shape _analyze_temperature reads, or with    *)
(* WeatherConfig's own.                                                      *)

\* TEMPERATURE_THRESHOLDS of the shape read: the floors and ceilings the
\* comments of _analyze_temperature name (30, 25, -10, 10) and others, in
\* either order
ShapedThresholds ==
    {[very_hot |-> [absolute_min |-> a], hot |-> [absolute_min |-> b],
      very_cold |-> [absolute_min |-> -10], cold |-> [absolute_max |-> c]] :
        a \in {25, 30}, b \in {25, 30}, c \in {-15, 10}}

TemperatureConfigs == {TEMPERATURE_THRESHOLDS} \cup ShapedThresholds

\* A year's row of the frames analysed
TemperatureReadings ==
    [day_of_year : DataDays, T2M : {25}, T2M_MAX : {20, 22, 28}, T2M_MIN : {-12, 5}]

TemperatureFrames ==
    {[columns |-> c, rows |-> r] :
        c \in {{"T2M_MAX", "T2M_MIN"}, {"T2M_MAX", "T2M_MIN", "T2M"}},
        r \in UNION {[1..l -> TemperatureReadings] : l \in 0..MaxHistory}}

TemperatureInit ==
    /\ IdleFetch
    /\ multi_source_data = <<>>
    /\ consensus = <<>>
    /\ data \in TemperatureFrames
    /\ day_of_year \in QueryDays
    /\ analysis = <<>>
    /\ method = <<>>
    /\ request = <<>>
    /\ report = <<>>
    /\ settings \in [TEMPERATURE_THRESHOLDS : TemperatureConfigs]
    /\ network = <<>>
    /\ cache_dir = <<>>
    /\ history = <<>>

\* StatisticalAnalyzer(config).analyze_day(data, day_of_year)
AnalyzeDayConfigured ==
    /\ analysis = <<>>
    /\ analysis' = <<AnalyzeDayUnder(settings.TEMPERATURE_THRESHOLDS, data, day_of_year)>>
    /\ method' = <<"analyze_day">>
    /\ UNCHANGED <<data, day_of_year, fetchVars, consensusVars, apiVars, serviceVars>>

TemperatureNext == AnalyzeDayConfigured

TemperatureSpec == TemperatureInit /\ [][TemperatureNext]_vars

----------------------------------------------------------------------------
(* Claims about the data sources *)

\* The calls of get_data made so far
GetDataCalls == {i \in 1..Len(history) : history[i].fn = "get_data"}

\* The order get_data is to try the providers in, for the service's settings
ProviderOrder ==
    IF settings.use_mock \/ settings.preferred_source = "mock" THEN <<"mock">>
    ELSE IF settings.preferred_source = "nasa" THEN <<"nasa", "openmeteo", "mock">>
    ELSE <<"openmeteo", "nasa", "mock">>

\* The provider a source label names
Named(source) ==
    CASE Contains(source, "NASA") -> "nasa"
      [] Contains(source, "Open-Meteo") -> "openmeteo"
      [] Contains(source, "Mock") -> "mock"
      [] OTHER -> "nobody"

SourceCalls ==
    {i \in 1..Len(history) : /\ history[i].fn = "_fetch_from_source"
                             /\ history[i].source_name # "nasa_power"}

\* The cache key of the calls on a source
KeyOf(source_name) ==
    IF source_name = "openmeteo"
    THEN OpenMeteoAPI_cache_key(settings.place[1], settings.place[2], first_year, last_year)
    ELSE BaseDataAdapter_get_cache_key(source_name, settings.place[1], settings.place[2],
                                       call_start_date, call_end_date, params_of(source_name))

\* The provider a source sends its requests to; the generators need none
ProviderOf(source_name) ==
    IF source_name \in {"openmeteo", "openmeteo_enhanced"} THEN {"openmeteo"} ELSE {}

\* The call found a readable file under its key, of those ages
Found(call, ages) ==
    /\ KeyOf(call.source_name) \in DOMAIN call.before
    /\ call.before[KeyOf(call.source_name)].readable
    /\ call.before[KeyOf(call.source_name)].age \in ages

\* C22: in every source adapter a cache entry older than the 30-day TTL is
\* treated as absent: a fetch that finds only a stale entry does not return it
\* but gets fresh data (its provider answering) and rewrites the entry, and a
\* fetch that finds an entry younger than 30 days returns it without
\* contacting the provider.
C22_StaleEntriesAreRefetched ==
    \A i \in SourceCalls :
        LET call == history[i]
        IN  /\ (Found(call, cache_days..MaxAge)
                  /\ ProviderOf(call.source_name) \subseteq call.up)
                  => /\ KeyOf(call.source_name) \in call.wrote
                     /\ \A p \in ProviderOf(call.source_name) : call.requests = <<p>>
            /\ Found(call, 0..(cache_days - 1))
                  => /\ call.requests = <<>>
                     /\ call.wrote = {}
                     /\ call.out.result = call.before[KeyOf(call.source_name)].df

\* The items of a list
Items(list) == {list[i] : i \in 1..Len(list)}

\* Two requests that differ at most in the order of their parameter lists
SameButOrder(r1, r2) ==
    /\ r1.source = r2.source
    /\ r1.latitude = r2.latitude /\ r1.longitude = r2.longitude
    /\ r1.start = r2.start /\ r1.end = r2.end
    /\ Len(r1.params) = Len(r2.params) /\ Items(r1.params) = Items(r2.params)

\* C23: the cache key is a function of (source_id, latitude, longitude,
\* start_date, end_date, sorted parameter list): two requests to one source
\* that differ only in the order of their parameter lists get the same key,
\* and requests that differ in the source or in another component get
\* different keys.
C23_KeyOfSortedParameters ==
    report # <<>> =>
        (report[1] = report[2] <=> SameButOrder(request[1], request[2]))

\* The part of C23 that holds: the key tells apart any two requests that
\* differ, the order of the parameter list included
C23_KeySeparatesRequests ==
    report # <<>> =>
        (report[1] = report[2] <=> request[1] = request[2])

\* All calls of _fetch_from_source made so far
FetchCalls == {i \in 1..Len(history) : history[i].fn = "_fetch_from_source"}

\* The call asked CPTEC for a place outside its coverage
OutOfCoverage(call) ==
    /\ call.source_name = "cptec"
    /\ ~is_south_america(settings.place[1], settings.place[2])

\* The call's request to its provider failed, and the call had nothing else
TransportFailure(call) ==
    /\ call.source_name \in {"openmeteo", "openmeteo_enhanced"}
    /\ call.requests = <<"openmeteo">>
    /\ "openmeteo" \notin call.up

\* What fetch_multi_source_data has of a task: the future's result and what
\* the collecting loop did with it
OrchestratorOutcome(call) ==
    [result |-> call.out.result, collected |-> CollectedAs(call.out.result)]

\* C24: CPTEC answers a request outside its coverage with an empty result, not
\* a failure, and what the orchestrator has of that source differs from what it
\* has of a source whose fetch failed with a transport or processing error.
C24_OutOfCoverageIsNotAFailure ==
    \A i \in FetchCalls : \A j \in FetchCalls :
        (OutOfCoverage(history[i]) /\ TransportFailure(history[j]))
            => /\ ~history[i].out.raised
               /\ OrchestratorOutcome(history[i]) # OrchestratorOutcome(history[j])

\* C25: two consecutive calls of get_data on one service, with the same
\* arguments, return the same source label and data of the same length
\* (the frame analyze_weather computes its statistics from), whatever the
\* providers' availability at and between the two calls.
C25_RepeatedCallsAgree ==
    \A i \in GetDataCalls :
        (i + 1) \in GetDataCalls
            => /\ history[i].out.result.source = history[i + 1].out.result.source
               /\ history[i].out.result.data.rows = history[i + 1].out.result.data.rows

\* C26: convert_result_units is applied only to the finished report (after the
\* analysis has returned and the result dict is built), and it leaves the
\* report passed to it as it was, at the top level and in the nested
\* statistics.
C26_ConversionLeavesItsArgument ==
    (report # <<>> /\ report[1].converted)
        => /\ ~report[1].out.raised
           /\ "statistics" \in DOMAIN report[1].built
           /\ report[1].passed = report[1].built

----------------------------------------------------------------------------
(* Claims about the multi-source path of analyze_weather *)

\* `historical_data = list(multi_data.values())[0]`: the source whose frame
\* analyze_weather analyses, multi_data having its keys in the order `keys`
historical_data(keys) == keys[1]

\* multi_data, had the same tasks with the same data completed in another
\* order: the as_completed loop inserts the keys as the tasks complete
Reordered(p) == [i \in DOMAIN results |-> results[p[i]]]

\* C27: with use_multi_source=True and the data of every source fixed, the
\* report of analyze_weather is the same for every order in which the fetches
\* complete: the series analysed is the one any other completion order of the
\* same tasks would have given.
C27_ReportIgnoresCompletionOrder ==
    (pc = "done" /\ caller = "analyze_weather" /\ response.kind = "report")
        => \A p \in Permutations(DOMAIN results) :
              historical_data(Reordered(p)) = historical_data(results)

----------------------------------------------------------------------------
\* The means of the sources of sources_used, in the order of the input.
MeansOfUsed(msd) ==
    LET used == SelectSeq(values_by_source(msd), LAMBDA entry : Len(entry.values) > 0)
    IN  [i \in 1..Len(used) |-> SeriesMean(used[i].values)]

StdOfUsed(means) == IF Len(means) > 1 THEN np_std(means) ELSE Num(Zero)

\* C28: in every calculate_consensus result whose value is not null,
\* source_values has exactly the sources of sources_used, and agreement_level,
\* std_deviation and the confidence interval are those of the means of these
\* sources alone; a source whose column holds only missing values makes none
\* of them NaN.
C28_OnlyUsedSourcesCount ==
    (Called /\ ~consensus[1].value.null) =>
        /\ {consensus[1].source_values[i].source : i \in DOMAIN consensus[1].source_values}
              = SeqSet(consensus[1].sources_used)
        /\ ~IsNaN(consensus[1].agreement_level)
        /\ ~IsNaN(consensus[1].std_deviation)
        /\ ~IsNaN(consensus[1].confidence_interval.std)
        /\ consensus[1].agreement_level = _calculate_agreement(MeansOfUsed(multi_source_data))
        /\ consensus[1].std_deviation = StdOfUsed(MeansOfUsed(multi_source_data))

----------------------------------------------------------------------------
\* The provider whose data a source key stands for
ProviderFor(source_name) ==
    CASE source_name = "nasa_power" -> "nasa"
      [] source_name \in {"openmeteo", "openmeteo_enhanced"} -> "openmeteo"
      [] OTHER -> source_name

\* The calls whose frame fetch_multi_source_data stores under the source key
StoredCalls == {i \in FetchCalls : Stored(history[i].out.result)}

\* C29: the frame stored under a source key was produced by that provider
\* ('nasa_power' never holds Open-Meteo or mock data), so whichever providers
\* fail, no two keys carry the same provider's series.
C29_KeyHoldsItsProvidersData ==
    /\ \A i \in StoredCalls :
          history[i].out.result.producer = ProviderFor(history[i].source_name)
    /\ \A i \in StoredCalls : \A j \in StoredCalls :
          history[i].source_name # history[j].source_name
              => history[i].out.result.producer # history[j].out.result.producer

----------------------------------------------------------------------------
\* The report made has temperature probabilities
HasTemperature ==
    /\ analysis # <<>>
    /\ IsReport(analysis[1])
    /\ "very_hot" \in DOMAIN analysis[1].result.probabilities

\* The 'very_hot' floor is at least the 'hot' floor and the 'very_cold'
\* ceiling is at most the 'cold' ceiling
OrderedThresholds(thresholds) ==
    /\ thresholds.very_hot.absolute_min >= thresholds.hot.absolute_min
    /\ thresholds.very_cold.absolute_min <= thresholds.cold.absolute_max

\* C30: in every analyze_day report that has temperature probabilities the
\* stricter label is never more probable than the weaker one, P(very_hot) <=
\* P(hot) and P(very_cold) <= P(cold), for every day slice and every
\* configuration whose 'very_hot' floor is at least the 'hot' floor and whose
\* 'very_cold' ceiling is at most the 'cold' ceiling.
C30_StricterLabelNeverMoreProbable ==
    (HasTemperature /\ OrderedThresholds(settings.TEMPERATURE_THRESHOLDS)) =>
        /\ ~RatLess(analysis[1].result.probabilities.hot,
                    analysis[1].result.probabilities.very_hot)
        /\ ~RatLess(analysis[1].result.probabilities.cold,
                    analysis[1].result.probabilities.very_cold)

\* A report in which the floors decide: two years at 22 and 28 degrees, 'hot'
\* from 26.5 (the 75th percentile, above its floor of 25) and 'very_hot' from
\* its floor of 30
C30_Witness ==
    /\ HasTemperature
    /\ OrderedThresholds(settings.TEMPERATURE_THRESHOLDS)
    /\ settings.TEMPERATURE_THRESHOLDS.very_hot.absolute_min = 30
    /\ settings.TEMPERATURE_THRESHOLDS.hot.absolute_min = 25
    /\ analysis[1].result.data_points = 2
    /\ analysis[1].result.probabilities.hot = Rat(1, 2)
    /\ analysis[1].result.probabilities.very_hot = Zero
    /\ analysis[1].result.probabilities.cold = Rat(1, 2)
    /\ analysis[1].result.probabilities.very_cold = Rat(1, 2)

\* Without the condition on the configuration the order can fail
C30_AnyConfiguration ==
    HasTemperature =>
        /\ ~RatLess(analysis[1].result.probabilities.hot,
                    analysis[1].result.probabilities.very_hot)
        /\ ~RatLess(analysis[1].result.probabilities.cold,
                    analysis[1].result.probabilities.very_cold)

====
